---- MODULE Spec2Model ----
(***************************************************************************)
(* BudgetPlanner: the aggregation, parsing and month-key logic of          *)
(* calculations.py, data_manager.py and the BudgetApp handlers of app.py.  *)
(*                                                                         *)
(* Text is modelled as a sequence of one-character strings, so that the    *)
(* substring, prefix, strip and replace operations of the code are         *)
(* computed and not assumed.  Money is modelled in thousandths (an amount  *)
(* of 12.5 is the integer 12500); a quotient is kept as an exact fraction  *)
(* [num, den].                                                             *)
(***************************************************************************)
EXTENDS Integers, Sequences, FiniteSets, TLC

VARIABLES
    session,             \* "library": MonthData + BudgetCalculator; "app": BudgetApp;
                         \* "helpers": the module-level helper functions
    transactions,        \* MonthData.transactions, in insertion order
    call,                \* the last call made and what it returned
    structure,           \* BudgetApp.structure (the category schema)
    labels_by_item,      \* BudgetApp.labels_by_item: the entry fields, in build order
    totals_per_category, \* the per-category sum labels
    summary,             \* the summary cards and the top-3 boxes
    budget_warnings,     \* BudgetApp.budget_warnings: category -> limit
    settings_file,       \* profiles/settings.json
    current_month,       \* BudgetApp.current_month
    files,               \* profiles/<profile>/budget_<month>.json
    handled,             \* number of month-view handlers run so far
    DEFAULT_STRUCTURE    \* the built-in default schema, and which of its inner
                         \* mappings are the same objects as those of structure

vars == <<session, transactions, call, structure, labels_by_item, totals_per_category,
          summary, budget_warnings, settings_file, current_month, files, handled,
          DEFAULT_STRUCTURE>>

appvars == <<structure, labels_by_item, totals_per_category, summary, budget_warnings,
             settings_file, current_month, files, handled, DEFAULT_STRUCTURE>>

----------------------------------------------------------------------------
(* Text helpers (Python str operations).                                   *)

Upper == <<"A","B","C","D","E","F","G","H","I","J","K","L","M",
           "N","O","P","Q","R","S","T","U","V","W","X","Y","Z">>

LowerL == <<"a","b","c","d","e","f","g","h","i","j","k","l","m",
            "n","o","p","q","r","s","t","u","v","w","x","y","z">>

\* the upper-case letters and their lower-case forms
LowerMap == [c \in {Upper[i] : i \in DOMAIN Upper} |->
                LowerL[CHOOSE i \in DOMAIN Upper : Upper[i] = c]]

LowerChar(c) == IF c \in DOMAIN LowerMap THEN LowerMap[c] ELSE c

\* str.lower()
Lower(s) == [i \in 1..Len(s) |-> LowerChar(s[i])]

\* sub in s
Contains(sub, s) ==
    \E i \in 0..(Len(s) - Len(sub)) : SubSeq(s, i + 1, i + Len(sub)) = sub

\* s.startswith(p)
StartsWith(s, p) == Len(s) >= Len(p) /\ SubSeq(s, 1, Len(p)) = p

----------------------------------------------------------------------------
(* The names used as inputs.                                               *)

Einnahmen      == <<"E","i","n","n","a","h","m","e","n">>
Einkommen      == <<"E","i","n","k","o","m","m","e","n">>
Fixkosten      == <<"F","i","x","k","o","s","t","e","n">>
VariableKosten == <<"V","a","r","i","a","b","l","e"," ","K","o","s","t","e","n">>
Sparen         == <<"S","p","a","r","e","n">>
AutoRad        == <<"A","u","t","o"," ","/"," ","R","a","d">>
Rad            == <<"R","a","d">>
Gehalt         == <<"G","e","h","a","l","t">>
Wohnen         == <<"W","o","h","n","e","n">>
Essen          == <<"E","s","s","e","n">>
Ziele          == <<"Z","i","e","l","e">>
Hauptjob       == <<"H","a","u","p","t","j","o","b">>
Miete          == <<"M","i","e","t","e">>
Strom          == <<"S","t","r","o","m">>
Supermarkt     == <<"S","u","p","e","r","m","a","r","k","t">>
Rente          == <<"R","e","n","t","e">>

\* the literals of the classification rule
LitEinnahmen == <<"E","i","n","n","a","h","m","e","n">>
LitEin       == <<"e","i","n">>
LitFix       == <<"F","i","x">>
LitFixLower  == <<"f","i","x">>
LitVariable  == <<"V","a","r","i","a","b","l","e">>
LitVar       == <<"v","a","r">>
LitSparen    == <<"S","p","a","r","e","n">>
LitSep       == <<" ","/"," ">>

SparenAuto     == <<"S","p","a","r","e","n"," ","/"," ","A","u","t","o">>

\* the (category, subcategory, item) keys a MonthData is built from
Keys == {
    <<Einnahmen, Gehalt, Hauptjob>>,
    <<Einkommen, Gehalt, Hauptjob>>,
    <<Fixkosten, Wohnen, Miete>>,
    <<Fixkosten, Wohnen, Strom>>,
    <<Sparen, AutoRad, Rente>>,
    <<SparenAuto, Rad, Rente>> }

\* amounts in thousandths: -1.0, 0.0, 1.0, 2.0
Amounts == {-1000, 0, 1000, 2000}

\* limits handed to check_budget_limit, in thousandths
Limits == {-1000, 0, 1000}

MaxEntries == 2
MaxN == 2

----------------------------------------------------------------------------
(* Exact fractions for the results of float division.                      *)

Abs(n) == IF n < 0 THEN -n ELSE n

RECURSIVE Gcd(_, _)
Gcd(a, b) == IF b = 0 THEN a ELSE Gcd(b, a % b)

\* the quotient n / d (d # 0) in lowest terms, with a positive denominator
Frac(n, d) ==
    LET g == Gcd(Abs(n), Abs(d))
    IN [num |-> (IF d < 0 THEN -n ELSE n) \div g, den |-> Abs(d) \div g]

FracZero == [num |-> 0, den |-> 1]

----------------------------------------------------------------------------
(* MonthData (data_manager.py)                                             *)

Transaction(amount, note) == [amount |-> amount, note |-> note]

KeyOf(e) == <<e.category, e.subcat, e.item>>

HasKey(txs, k) == \E i \in DOMAIN txs : KeyOf(txs[i]) = k

\* dict assignment: an existing key keeps its position, a new key is appended
DictSet(txs, k, trans) ==
    LET e == [category |-> k[1], subcat |-> k[2], item |-> k[3],
              amount |-> trans.amount, note |-> trans.note]
    IN IF HasKey(txs, k)
       THEN [i \in DOMAIN txs |-> IF KeyOf(txs[i]) = k THEN e ELSE txs[i]]
       ELSE Append(txs, e)

----------------------------------------------------------------------------
(* BudgetCalculator (calculations.py)                                      *)

\* category_totals[category] += amount, creating the key at 0.0
AddTo(ct, category, amount) ==
    [c \in (DOMAIN ct) \cup {category} |->
        (IF c \in DOMAIN ct THEN ct[c] ELSE 0) + (IF c = category THEN amount ELSE 0)]

ZeroTotals ==
    [income |-> 0, expenses |-> 0, fixed |-> 0, variable |-> 0, balance |-> 0,
     categories |-> << >>]

\* one iteration of the loop of calculate_totals
TotalsStep(t, e) ==
    LET Count(category, amount) ==
          LET u == IF Contains(LitEinnahmen, category) \/ StartsWith(Lower(category), LitEin)
                   THEN [t EXCEPT !.income = @ + amount]
                   ELSE IF Contains(LitFix, category) \/ StartsWith(Lower(category), LitFixLower)
                   THEN [t EXCEPT !.fixed = @ + amount, !.expenses = @ + amount]
                   ELSE IF Contains(LitVariable, category) \/ StartsWith(Lower(category), LitVar)
                   THEN [t EXCEPT !.variable = @ + amount, !.expenses = @ + amount]
                   ELSE IF category = LitSparen
                   THEN [t EXCEPT !.expenses = @ + amount, !.variable = @ + amount]
                   ELSE [t EXCEPT !.expenses = @ + amount, !.variable = @ + amount]
          IN [u EXCEPT !.categories = AddTo(@, category, amount)]
    IN Count(e.category, e.amount)

RECURSIVE TotalsLoop(_, _)
TotalsLoop(t, txs) ==
    IF txs = << >> THEN t ELSE TotalsLoop(TotalsStep(t, Head(txs)), Tail(txs))

calculate_totals_clamped(month_data) ==
    LET Balanced(t) ==
          [t EXCEPT !.balance = IF t.income - t.expenses < 0 THEN 0 ELSE t.income - t.expenses]
    IN Balanced(TotalsLoop(ZeroTotals, month_data))

calculate_totals(month_data) ==
    LET Balanced(t) == [t EXCEPT !.balance = t.income - t.expenses]
    IN Balanced(TotalsLoop(ZeroTotals, month_data))

calculate_savings_rate(income, expenses) ==
    IF income = 0 THEN FracZero ELSE Frac((income - expenses) * 100, income)

\* f"{category} / {subcat}"
Label(category, subcat) == category \o LitSep \o subcat

HasLabel(st, key) == \E i \in DOMAIN st : st[i].label = key

\* subcategory_totals[key] += amount, creating the key at 0.0 (insertion order kept)
AddToLabel(st, key, amount) ==
    IF HasLabel(st, key)
    THEN [i \in DOMAIN st |->
            IF st[i].label = key THEN [st[i] EXCEPT !.amount = @ + amount] ELSE st[i]]
    ELSE Append(st, [label |-> key, amount |-> amount])

\* list.insert for the stable descending sort: x goes after every element
\* whose amount is not smaller
InsertDesc(sorted, x) ==
    LET before == {i \in DOMAIN sorted : sorted[i].amount >= x.amount}
        n == Cardinality(before)
    IN SubSeq(sorted, 1, n) \o <<x>> \o SubSeq(sorted, n + 1, Len(sorted))

\* sorted(items, key=lambda x: x[1], reverse=True): stable, descending
RECURSIVE SortedDesc(_)
SortedDesc(items) ==
    IF items = << >> THEN << >>
    ELSE InsertDesc(SortedDesc(SubSeq(items, 1, Len(items) - 1)), items[Len(items)])

\* seq[:n] for n >= 0
Take(seq, n) == SubSeq(seq, 1, IF n < Len(seq) THEN n ELSE Len(seq))

RECURSIVE TopLoop(_, _)
TopLoop(st, txs) ==
    IF txs = << >> THEN st
    ELSE LET Count(e) == IF ~Contains(LitEinnahmen, e.category)
                         THEN AddToLabel(st, Label(e.category, e.subcat), e.amount)
                         ELSE st
         IN TopLoop(Count(Head(txs)), Tail(txs))

get_top_expenses(month_data, n) == Take(SortedDesc(TopLoop(<< >>, month_data)), n)

check_budget_limit(amount, limit) ==
    IF limit <= 0
    THEN [is_exceeded |-> FALSE, percentage |-> FracZero]
    ELSE [is_exceeded |-> amount > limit, percentage |-> Frac(amount * 100, limit)]

----------------------------------------------------------------------------
(* Python values and conversions.                                          *)

\* Python None (no text is a one-element sequence holding a longer string)
None == <<"None">>

Digits == <<"0","1","2","3","4","5","6","7","8","9">>
DigitMap == [c \in {Digits[i] : i \in DOMAIN Digits} |->
                (CHOOSE i \in DOMAIN Digits : Digits[i] = c) - 1]
IsDigit(c) == c \in DOMAIN DigitMap
DigitVal(c) == DigitMap[c]
AllDigits(s) == \A i \in DOMAIN s : IsDigit(s[i])

Whitespace == {" ", "\n", "\t"}

SetMin(S) == CHOOSE x \in S : \A y \in S : x <= y
SetMax(S) == CHOOSE x \in S : \A y \in S : x >= y

\* str.strip()
Strip(s) ==
    LET keep == {i \in DOMAIN s : s[i] \notin Whitespace}
    IN IF keep = {} THEN << >> ELSE SubSeq(s, SetMin(keep), SetMax(keep))

\* str.replace(a, b) for one-character a and b
Replace(s, a, b) == [i \in 1..Len(s) |-> IF s[i] = a THEN b ELSE s[i]]

\* the value of a sequence of decimal digits
RECURSIVE NatOf(_)
NatOf(ds) ==
    IF ds = << >> THEN 0
    ELSE NatOf(SubSeq(ds, 1, Len(ds) - 1)) * 10 + DigitVal(ds[Len(ds)])

\* the decimal digits of a natural number
RECURSIVE NatStr(_)
NatStr(n) ==
    IF n < 10 THEN <<Digits[n + 1]>> ELSE NatStr(n \div 10) \o <<Digits[(n % 10) + 1]>>

\* str(int)
IntStr(n) == IF n < 0 THEN <<"-">> \o NatStr(-n) ELSE NatStr(n)

\* format(n, "02d")
Pad2(n) == IF n >= 0 /\ n < 10 THEN <<"0">> \o NatStr(n) ELSE IntStr(n)

\* money units per 1.0: amounts are kept in thousandths
Scale == 10 * 10 * 10

\* float(text): optional sign, digits with at most one point and at least one
\* digit, surrounding whitespace ignored; anything else is a ValueError.
\* (Exponents, underscores, inf and nan are not among the inputs; at most
\* three fraction digits are, so the value is exact in thousandths.)
float(s) ==
    LET Number(signed, negative, body) ==
          LET Parts(p) ==
                NatOf(SubSeq(body, 1, p - 1)) * Scale
                    + NatOf(SubSeq(SubSeq(body, p + 1, Len(body)) \o <<"0", "0", "0">>, 1, 3))
              Parsed(magnitude) ==
                [exc |-> "none", value |-> IF negative THEN -magnitude ELSE magnitude]
              Checked(dots) ==
                IF /\ Cardinality(dots) <= 1
                   /\ \A i \in DOMAIN body : IsDigit(body[i]) \/ body[i] = "."
                   /\ \E i \in DOMAIN body : IsDigit(body[i])
                THEN Parsed(Parts(IF dots = {} THEN Len(body) + 1 ELSE CHOOSE i \in dots : TRUE))
                ELSE [exc |-> "ValueError", value |-> 0]
          IN Checked({i \in DOMAIN body : body[i] = "."})
        Signed(t) ==
          IF t # << >> /\ t[1] \in {"+", "-"}
          THEN Number(TRUE, t[1] = "-", Tail(t))
          ELSE Number(FALSE, FALSE, t)
    IN Signed(Strip(s))

\* int(text): optional sign and digits, surrounding whitespace ignored
int(s) ==
    LET Number(negative, body) ==
          IF body # << >> /\ AllDigits(body)
          THEN [exc |-> "none", value |-> IF negative THEN -NatOf(body) ELSE NatOf(body)]
          ELSE [exc |-> "ValueError", value |-> 0]
        Signed(t) ==
          IF t # << >> /\ t[1] \in {"+", "-"}
          THEN Number(t[1] = "-", Tail(t))
          ELSE Number(FALSE, t)
    IN Signed(Strip(s))

\* the fraction digits of str(float): no trailing zeros, at least one digit
RECURSIVE FracStr(_, _)
FracStr(f, width) ==
    IF width = 1 \/ f % 10 # 0
    THEN [i \in 1..width |-> Digits[((f \div (10 ^ (width - i))) % 10) + 1]]
    ELSE FracStr(f \div 10, width - 1)

\* str(float) of a value in thousandths
FloatStr(v) ==
    (IF v < 0 THEN <<"-">> ELSE << >>) \o NatStr(Abs(v) \div Scale) \o <<".">>
        \o FracStr(Abs(v) % Scale, 3)

\* Python values: a str, None, an int, or a float (in thousandths)
PyStr(chars) == [type |-> "str", chars |-> chars]
PyNone == [type |-> "NoneType"]
PyInt(n) == [type |-> "int", int |-> n]
PyFloat(v) == [type |-> "float", thousandths |-> v]

\* str(value)
str(x) ==
    IF x.type = "str" THEN x.chars
    ELSE IF x.type = "NoneType" THEN <<"N","o","n","e">>
    ELSE IF x.type = "int" THEN IntStr(x.int)
    ELSE FloatStr(x.thousandths)

\* s.split(sep) for a one-character separator
RECURSIVE Split(_, _)
Split(s, sep) ==
    LET hits == {i \in DOMAIN s : s[i] = sep}
    IN IF hits = {} THEN <<s>>
       ELSE LET p == SetMin(hits)
            IN <<SubSeq(s, 1, p - 1)>> \o Split(SubSeq(s, p + 1, Len(s)), sep)

----------------------------------------------------------------------------
(* Helper functions of the application module.                             *)

\* the exceptions the handler of ensure_float catches
EnsureFloatCaught == {"ValueError", "AttributeError"}

ensure_float_no_comma(s) ==
    LET Caught(r) ==
          IF r.exc = "none" THEN r
          ELSE IF r.exc \in EnsureFloatCaught THEN [exc |-> "none", value |-> 0]
          ELSE r
        Convert(t) == IF t = << >> THEN [exc |-> "none", value |-> 0] ELSE Caught(float(t))
    IN Convert(Strip(str(s)))

ensure_float(s) ==
    LET Caught(r) ==
          IF r.exc = "none" THEN r
          ELSE IF r.exc \in EnsureFloatCaught THEN [exc |-> "none", value |-> 0]
          ELSE r
        Convert(t) == IF t = << >> THEN [exc |-> "none", value |-> 0] ELSE Caught(float(t))
    IN Convert(Replace(Strip(str(s)), ",", "."))

\* re.match(r'^\d{4}-\d{2}$', s): "$" matches at the end of the text and also
\* just before a newline that ends the text
MatchesMonthPattern(s) ==
    /\ Len(s) = 7 \/ (Len(s) = 8 /\ s[8] = "\n")
    /\ \A i \in 1..4 : IsDigit(s[i])
    /\ s[5] = "-"
    /\ \A i \in 6..7 : IsDigit(s[i])

\* year, month = map(int, ym_str.split('-')): fails unless there are exactly
\* two parts and both are integers
ParseYearMonth(ym_str) ==
    LET Failed == [exc |-> "ValueError", year |-> 0, month |-> 0]
        Pair(y, m) ==
          IF y.exc # "none" \/ m.exc # "none" THEN Failed
          ELSE [exc |-> "none", year |-> y.value, month |-> m.value]
        Unpack(parts) == IF Len(parts) # 2 THEN Failed ELSE Pair(int(parts[1]), int(parts[2]))
    IN Unpack(Split(ym_str, "-"))

MinYear == 1900
MaxYear == 2100

validate_month_format(ym_str) ==
    LET InRange(p) ==
          IF p.exc # "none" THEN FALSE
          ELSE 1 <= p.month /\ p.month <= 12 /\ MinYear <= p.year /\ p.year <= MaxYear
    IN IF ~MatchesMonthPattern(ym_str) THEN FALSE ELSE InRange(ParseYearMonth(ym_str))

get_previous_month(ym_str) ==
    LET Before(p) ==
          IF p.exc # "none" THEN None
          ELSE IF p.month = 1 THEN IntStr(p.year - 1) \o <<"-", "1", "2">>
          ELSE IntStr(p.year) \o <<"-">> \o Pad2(p.month - 1)
    IN Before(ParseYearMonth(ym_str))

----------------------------------------------------------------------------
(* BudgetApp (app.py): schema, entry fields and recalculation.             *)

RECURSIVE Concat(_)
Concat(seqs) == IF seqs = << >> THEN << >> ELSE Head(seqs) \o Concat(Tail(seqs))

Main(name, subs) == [name |-> name, subs |-> subs]
Sub(name, items) == [name |-> name, items |-> items]

\* the (main_cat, subcat, item) keys in the iteration order of the nested loops
SchemaKeys(schema) ==
    Concat([i \in 1..Len(schema) |->
        Concat([j \in 1..Len(schema[i].subs) |->
            [k \in 1..Len(schema[i].subs[j].items) |->
                <<schema[i].name, schema[i].subs[j].name, schema[i].subs[j].items[k]>>]])])

Zero == <<"0">>
Empty == << >>

Field(k, amt, note) ==
    [category |-> k[1], subcat |-> k[2], item |-> k[3], amt |-> amt, note |-> note]

FieldAt(labels, k) == labels[CHOOSE i \in DOMAIN labels : KeyOf(labels[i]) = k]

\* build_categories_ui: the fields follow the schema; a key that had a field
\* keeps its texts, a new key starts at "0" and ""; every sum label is reset
build_categories_ui(schema, labels) ==
    LET keys == SchemaKeys(schema)
    IN [labels |-> [i \in 1..Len(keys) |->
                      IF HasKey(labels, keys[i])
                      THEN FieldAt(labels, keys[i])
                      ELSE Field(keys[i], Zero, Empty)],
        totals |-> [i \in 1..Len(schema) |->
                      [category |-> schema[i].name, sum |-> 0, warn |-> FALSE]]]

ZeroSums ==
    [income |-> 0, expense |-> 0, fixed |-> 0, variable |-> 0, per_main |-> << >>]

\* RecalcStep with the "Sparen" branch leaving variable_total alone
RecalcStepSparenApart(t, f) ==
    LET Count(mc, amt) ==
          LET u == IF Contains(LitEinnahmen, mc) \/ StartsWith(Lower(mc), LitEin)
                   THEN [t EXCEPT !.income = @ + amt]
                   ELSE IF Contains(LitFix, mc) \/ StartsWith(Lower(mc), LitFixLower)
                   THEN [t EXCEPT !.fixed = @ + amt, !.expense = @ + amt]
                   ELSE IF Contains(LitVariable, mc) \/ StartsWith(Lower(mc), LitVar)
                   THEN [t EXCEPT !.variable = @ + amt, !.expense = @ + amt]
                   ELSE IF mc = LitSparen
                   THEN [t EXCEPT !.expense = @ + amt]
                   ELSE [t EXCEPT !.expense = @ + amt, !.variable = @ + amt]
          IN [u EXCEPT !.per_main = AddTo(@, mc, amt)]
    IN Count(f.category, ensure_float(PyStr(f.amt)).value)

\* one iteration of the first loop of recalculate_all
RecalcStep(t, f) ==
    LET Count(mc, amt) ==
          LET u == IF Contains(LitEinnahmen, mc) \/ StartsWith(Lower(mc), LitEin)
                   THEN [t EXCEPT !.income = @ + amt]
                   ELSE IF Contains(LitFix, mc) \/ StartsWith(Lower(mc), LitFixLower)
                   THEN [t EXCEPT !.fixed = @ + amt, !.expense = @ + amt]
                   ELSE IF Contains(LitVariable, mc) \/ StartsWith(Lower(mc), LitVar)
                   THEN [t EXCEPT !.variable = @ + amt, !.expense = @ + amt]
                   ELSE IF mc = LitSparen
                   THEN [t EXCEPT !.expense = @ + amt, !.variable = @ + amt]
                   ELSE [t EXCEPT !.expense = @ + amt, !.variable = @ + amt]
          IN [u EXCEPT !.per_main = AddTo(@, mc, amt)]
    IN Count(f.category, ensure_float(PyStr(f.amt)).value)

RECURSIVE RecalcLoop(_, _)
RecalcLoop(t, labels) ==
    IF labels = << >> THEN t ELSE RecalcLoop(RecalcStep(t, Head(labels)), Tail(labels))

\* the "Top-3" loop of recalculate_all
RECURSIVE ExpenseBySub(_, _)
ExpenseBySub(st, labels) ==
    IF labels = << >> THEN st
    ELSE LET Count(f) ==
               IF Contains(LitEinnahmen, f.category) \/ StartsWith(Lower(f.category), LitEin)
               THEN st
               ELSE AddToLabel(st, Label(f.category, f.subcat), ensure_float(PyStr(f.amt)).value)
         IN ExpenseBySub(Count(Head(labels)), Tail(labels))

\* budget_limit and mc_sum > budget_limit  (an absent limit is None, and None
\* and 0.0 are both false)
LimitExceeded(limits, mc, mc_sum) ==
    mc \in DOMAIN limits /\ limits[mc] # 0 /\ mc_sum > limits[mc]

\* saving_rate = (balance / total_income * 100.0) if total_income > 0 else 0.0
SavingRate(balance, total_income) ==
    IF total_income > 0 THEN Frac(balance * 100, total_income) ELSE FracZero

\* recalculate_all: the texts of the summary cards, sum labels and top-3 boxes
\* (as the numbers they show)
recalculate_all(labels, totals, limits) ==
    LET SumLabel(t, mc) ==
          LET mc_sum == IF mc \in DOMAIN t.per_main THEN t.per_main[mc] ELSE 0
          IN [category |-> mc, sum |-> mc_sum, warn |-> LimitExceeded(limits, mc, mc_sum)]
        Show(t) ==
          LET balance == t.income - t.expense
          IN [summary |-> [income |-> t.income, expense |-> t.expense, balance |-> balance,
                           fixed |-> t.fixed, variable |-> t.variable,
                           saving_rate |-> SavingRate(balance, t.income),
                           top3 |-> Take(SortedDesc(ExpenseBySub(<< >>, labels)), 3)],
              totals |-> [i \in DOMAIN totals |-> SumLabel(t, totals[i].category)]]
    IN Show(RecalcLoop(ZeroSums, labels))

\* save_settings: the document written to settings.json
SettingsDoc(limits, schema) == [budget_warnings |-> limits, structure |-> schema]

----------------------------------------------------------------------------
(* Inputs of the application session.                                      *)

\* schemas read from settings.json at start-up
SchemaA == <<Main(Einnahmen, <<Sub(Gehalt, <<Hauptjob>>)>>),
             Main(Fixkosten, <<Sub(Wohnen, <<Miete>>)>>),
             Main(VariableKosten, <<Sub(Essen, <<Supermarkt>>)>>)>>

SchemaB == <<Main(Einkommen, <<Sub(Gehalt, <<Hauptjob>>)>>),
             Main(Sparen, <<Sub(Ziele, <<Rente>>)>>),
             Main(SparenAuto, <<Sub(Rad, <<Rente>>)>>)>>

Schemas == {SchemaA, SchemaB}


----------------------------------------------------------------------------
(* The category schema and its mutations (DataManager.add_category,        *)
(* DataManager.remove_item and the handlers of BudgetApp).                 *)

Mains(schema) == {schema[i].name : i \in DOMAIN schema}

MainAt(schema, main) == schema[CHOOSE i \in DOMAIN schema : schema[i].name = main]

HasSub(schema, main, sub) ==
    /\ main \in Mains(schema)
    /\ \E j \in DOMAIN MainAt(schema, main).subs : MainAt(schema, main).subs[j].name = sub

ItemsAt(schema, main, sub) ==
    LET subs == MainAt(schema, main).subs
    IN subs[CHOOSE j \in DOMAIN subs : subs[j].name = sub].items

InSeq(seq, x) == \E i \in DOMAIN seq : seq[i] = x

\* list.remove(x): the first occurrence goes
RemoveFirst(seq, x) ==
    LET At(i) == SubSeq(seq, 1, i - 1) \o SubSeq(seq, i + 1, Len(seq))
    IN At(SetMin({i \in DOMAIN seq : seq[i] = x}))

\* self.structure[main] = subs
WithSubs(schema, main, subs) ==
    [i \in DOMAIN schema |-> IF schema[i].name = main THEN Main(main, subs) ELSE schema[i]]

\* self.structure[main][sub] = items
WithItems(schema, main, sub, items) ==
    WithSubs(schema, main,
             [j \in DOMAIN MainAt(schema, main).subs |->
                IF MainAt(schema, main).subs[j].name = sub
                THEN Sub(sub, items)
                ELSE MainAt(schema, main).subs[j]])

\* mains, subcategories and items of a schema, counted together
SchemaSize(schema) ==
    Len(schema) + Len(Concat([i \in DOMAIN schema |-> schema[i].subs])) + Len(SchemaKeys(schema))

\* "if subcategory", "if item": None and the empty text are false
Given(name) == name # None /\ name # << >>

\* DataManager.add_category up to save_settings: the schema afterwards
add_category(schema, main_category, subcategory, item) ==
    LET WithItem(s) ==
          IF /\ Given(subcategory) /\ Given(item)
             /\ ~InSeq(ItemsAt(s, main_category, subcategory), item)
          THEN WithItems(s, main_category, subcategory,
                         Append(ItemsAt(s, main_category, subcategory), item))
          ELSE s
        WithSub(s) ==
          WithItem(IF Given(subcategory) /\ ~HasSub(s, main_category, subcategory)
                   THEN WithSubs(s, main_category,
                                 Append(MainAt(s, main_category).subs, Sub(subcategory, << >>)))
                   ELSE s)
    IN WithSub(IF main_category \in Mains(schema)
               THEN schema
               ELSE Append(schema, Main(main_category, << >>)))

\* the clean-up of remove_item and delete_item: an empty subcategory is
\* deleted, and then an empty main category
Cleanup(schema, main_category, subcategory) ==
    LET DropMain(s) ==
          IF MainAt(s, main_category).subs = << >>
          THEN SelectSeq(s, LAMBDA m : m.name # main_category)
          ELSE s
    IN DropMain(IF ItemsAt(schema, main_category, subcategory) = << >>
                THEN WithSubs(schema, main_category,
                              SelectSeq(MainAt(schema, main_category).subs,
                                        LAMBDA x : x.name # subcategory))
                ELSE schema)

\* "if item in ...: ....remove(item)"
Removed(schema, main_category, subcategory, item) ==
    IF InSeq(ItemsAt(schema, main_category, subcategory), item)
    THEN WithItems(schema, main_category, subcategory,
                   RemoveFirst(ItemsAt(schema, main_category, subcategory), item))
    ELSE schema

\* DataManager.remove_item: a missing main category or subcategory raises
\* KeyError, which is caught and logged, and save_settings is not reached
remove_item(schema, main_category, subcategory, item) ==
    IF ~HasSub(schema, main_category, subcategory)
    THEN [key_error |-> TRUE, structure |-> schema]
    ELSE [key_error |-> FALSE,
          structure |-> Cleanup(Removed(schema, main_category, subcategory, item),
                                main_category, subcategory)]

\* DEFAULT_STRUCTURE.copy() is a shallow copy: the copy is a new mapping
\* whose inner mappings are those of the default schema
Shared(schema) == [structure |-> schema, shared |-> Mains(schema)]

\* self.structure comes from a JSON document: no object is shared
Unshared(schema) == [structure |-> schema, shared |-> {}]

\* the default schema after self.structure has been mutated in place: an
\* inner mapping that is shared shows the mutation, and a main category
\* deleted from self.structure is shared no longer
Aliased(default, schema) ==
    [structure |->
        [i \in DOMAIN default.structure |->
            IF default.structure[i].name \notin default.shared THEN default.structure[i]
            ELSE IF default.structure[i].name \in Mains(schema)
            THEN Main(default.structure[i].name, MainAt(schema, default.structure[i].name).subs)
            ELSE Main(default.structure[i].name, << >>)],
     shared |-> default.shared \cap Mains(schema)]

\* load_month replaces self.structure by the schema of a readable document
Replaces(ym, fs) == ym \in DOMAIN fs /\ fs[ym].kind = "json" /\ fs[ym].has_structure

Replaced(default, ym, fs) == IF Replaces(ym, fs) THEN Unshared(default.structure) ELSE default

\* texts typed into an amount field
AmountTexts == { <<"0">>, <<"2","0","0">>, <<"1","0","0","0">>, <<"3","0","0","0">>,
                 <<"-","1","0","0","0">> }

\* texts typed into a field of the budget-limit dialog
LimitTexts == { << >>, <<"0">>, <<"1","0","0","0">>, <<"a","b","c">> }

Month202501 == <<"2","0","2","5","-","0","1">>

NoCall == [op |-> "none"]

----------------------------------------------------------------------------
(* Sessions: BudgetApp never calls MonthData or BudgetCalculator (app.py      *)
(* imports them and computes everything itself), so a run exercises either    *)
(* the library or the application.                                            *)

LibraryIdle ==
    /\ structure = << >>
    /\ labels_by_item = << >>
    /\ totals_per_category = << >>
    /\ summary = recalculate_all(<< >>, << >>, << >>).summary
    /\ budget_warnings = << >>
    /\ settings_file = SettingsDoc(<< >>, << >>)
    /\ current_month = Month202501
    /\ files = << >>
    /\ handled = 0
    /\ DEFAULT_STRUCTURE = Unshared(SchemaA)

\* MonthData(month): no transactions
InitLibrary ==
    /\ session = "library"
    /\ transactions = << >>
    /\ call = NoCall
    /\ LibraryIdle

\* BudgetApp.__init__ with the schema of settings.json, no limits and no file
\* for the current month: load_month sets every field to "0" and recalculates
InitApp ==
    /\ session = "app"
    /\ transactions = << >>
    /\ call = NoCall
    /\ structure \in Schemas
    /\ budget_warnings = << >>
    /\ settings_file = SettingsDoc(<< >>, structure)
    /\ current_month = Month202501
    /\ files = << >>
    /\ handled = 0
    /\ DEFAULT_STRUCTURE = Unshared(SchemaA)
    /\ \E ui \in {build_categories_ui(structure, << >>)} :
          /\ labels_by_item = ui.labels
          /\ \E r \in {recalculate_all(ui.labels, ui.totals, budget_warnings)} :
                /\ totals_per_category = r.totals
                /\ summary = r.summary

Init == InitLibrary \/ InitApp

----------------------------------------------------------------------------
(* Library operations.                                                     *)

\* MonthData.set_transaction
set_transaction(category, subcategory, item, transaction) ==
    /\ session \in {"library", "storage"}
    /\ HasKey(transactions, <<category, subcategory, item>>) \/ Len(transactions) < MaxEntries
    /\ transactions' = DictSet(transactions, <<category, subcategory, item>>, transaction)
    /\ call' = [op |-> "set_transaction"]
    /\ UNCHANGED <<session, appvars>>

CalculateTotals ==
    /\ session = "library"
    /\ call' = [op |-> "calculate_totals", ret |-> calculate_totals(transactions)]
    /\ UNCHANGED <<session, transactions, appvars>>

\* calculate_savings_rate(totals['income'], totals['expenses'])
CalculateSavingsRate ==
    /\ session = "library"
    /\ \E totals \in {calculate_totals(transactions)} :
          call' = [op |-> "calculate_savings_rate",
                   income |-> totals.income, expenses |-> totals.expenses,
                   ret |-> calculate_savings_rate(totals.income, totals.expenses)]
    /\ UNCHANGED <<session, transactions, appvars>>

GetTopExpenses(n) ==
    /\ session = "library"
    /\ call' = [op |-> "get_top_expenses", n |-> n, ret |-> get_top_expenses(transactions, n)]
    /\ UNCHANGED <<session, transactions, appvars>>

\* check_budget_limit(totals['categories'][category], limit) for a category
\* of the ledger
CheckBudgetLimit ==
    /\ session = "library"
    /\ \E totals \in {calculate_totals(transactions)} :
          \E category \in DOMAIN totals.categories, limit \in Limits :
            call' = [op |-> "check_budget_limit",
                     amount |-> totals.categories[category], limit |-> limit,
                     ret |-> check_budget_limit(totals.categories[category], limit)]
    /\ UNCHANGED <<session, transactions, appvars>>

----------------------------------------------------------------------------
(* Application handlers.                                                   *)

\* the user types a text into the amount field of entry i: the write trace
\* runs on_amount_change, which recalculates
on_amount_change(i, text) ==
    /\ session = "app"
    /\ i \in DOMAIN labels_by_item
    /\ labels_by_item' = [labels_by_item EXCEPT ![i].amt = text]
    /\ \E r \in {recalculate_all(labels_by_item', totals_per_category, budget_warnings)} :
          /\ totals_per_category' = r.totals
          /\ summary' = r.summary
    /\ call' = [op |-> "on_amount_change"]
    /\ UNCHANGED <<session, transactions, structure, budget_warnings, settings_file,
                   current_month, files, handled, DEFAULT_STRUCTURE>>

\* the categories that get a field in the budget-limit dialog
LimitCategories(schema) ==
    {schema[i].name : i \in {j \in DOMAIN schema : ~Contains(LitEinnahmen, schema[j].name)}}

\* one iteration of the loop of save_limits
SaveLimit(limits, cat, text) ==
    LET Store(r) ==
          IF r.exc = "none"
          THEN [c \in (DOMAIN limits) \cup {cat} |-> IF c = cat THEN r.value ELSE limits[c]]
          ELSE limits
        Keep(val) ==
          IF val # << >> THEN Store(float(val))
          ELSE [c \in (DOMAIN limits) \ {cat} |-> limits[c]]
    IN Keep(Strip(text))

RECURSIVE SaveLimitsLoop(_, _, _)
SaveLimitsLoop(limits, cats, vals) ==
    IF cats = {} THEN limits
    ELSE LET cat == CHOOSE c \in cats : TRUE
         IN SaveLimitsLoop(SaveLimit(limits, cat, vals[cat]), cats \ {cat}, vals)

\* set_budget_limits: the dialog has one field per category, pre-filled with
\* str(self.budget_warnings.get(main_cat, ""))
LimitVars(schema, limits) ==
    [c \in LimitCategories(schema) |->
        IF c \in DOMAIN limits THEN FloatStr(limits[c]) ELSE << >>]

\* set_budget_limits.save_limits after the user has typed text into the
\* field of cat
save_limits(cat, text) ==
    /\ session = "app"
    /\ cat \in LimitCategories(structure)
    /\ \E vals \in {[LimitVars(structure, budget_warnings) EXCEPT ![cat] = text]} :
          budget_warnings' = SaveLimitsLoop(budget_warnings, DOMAIN vals, vals)
    /\ settings_file' = SettingsDoc(budget_warnings', structure)
    /\ \E ui \in {build_categories_ui(structure, labels_by_item)} :
          /\ labels_by_item' = ui.labels
          /\ totals_per_category' = ui.totals
    /\ call' = [op |-> "save_limits"]
    /\ UNCHANGED <<session, transactions, structure, summary, current_month, files, handled,
                   DEFAULT_STRUCTURE>>

Next ==
    \/ \E k \in Keys, a \in Amounts : set_transaction(k[1], k[2], k[3], Transaction(a, Empty))
    \/ CalculateTotals
    \/ CalculateSavingsRate
    \/ \E n \in 0..MaxN : GetTopExpenses(n)
    \/ CheckBudgetLimit
    \/ \E i \in DOMAIN labels_by_item, text \in AmountTexts : on_amount_change(i, text)
    \/ \E i \in DOMAIN structure, text \in LimitTexts : save_limits(structure[i].name, text)

Spec == Init /\ [][Next]_vars

----------------------------------------------------------------------------
(* Vocabulary of the properties.                                           *)

RECURSIVE SumIdx(_, _)
SumIdx(I, a) ==
    IF I = {} THEN 0
    ELSE LET i == CHOOSE j \in I : TRUE IN a[i] + SumIdx(I \ {i}, a)

\* the classes of the aggregation rule, by main-category name
IsIncomeName(c) == Contains(LitEinnahmen, c) \/ StartsWith(Lower(c), LitEin)
IsFixedName(c) ==
    ~IsIncomeName(c) /\ (Contains(LitFix, c) \/ StartsWith(Lower(c), LitFixLower))
IsVariableName(c) == ~IsIncomeName(c) /\ ~IsFixedName(c)
IsExpenseName(c) == ~IsIncomeName(c)

\* the entries of the session: the transactions of the MonthData, or the
\* entry fields with the amount their text stands for
Entries ==
    IF session = "library"
    THEN [i \in DOMAIN transactions |->
            [category |-> transactions[i].category, subcat |-> transactions[i].subcat,
             amount |-> transactions[i].amount]]
    ELSE [i \in DOMAIN labels_by_item |->
            [category |-> labels_by_item[i].category, subcat |-> labels_by_item[i].subcat,
             amount |-> ensure_float(PyStr(labels_by_item[i].amt)).value]]

SumWhere(P(_)) ==
    SumIdx({i \in DOMAIN Entries : P(Entries[i].category)},
           [i \in DOMAIN Entries |-> Entries[i].amount])

TotalsReturned == session = "library" /\ call.op = "calculate_totals"

\* the application has just recalculated (at start-up, or after an edit)
Recalculated == session = "app" /\ call.op \in {"none", "on_amount_change"}

----------------------------------------------------------------------------
(* C1: for every set of entries, negative amounts included, the balance    *)
(* that calculate_totals returns and the balance that recalculate_all      *)
(* shows equal the sum of the income entries minus the sum of all other    *)
(* entries; it is not clamped and may be negative.                         *)
C1_BalanceIsIncomeMinusExpenses ==
    /\ TotalsReturned =>
         call.ret.balance = SumWhere(IsIncomeName) - SumWhere(IsExpenseName)
    /\ session = "app" =>
         summary.balance = SumWhere(IsIncomeName) - SumWhere(IsExpenseName)

C1_Witness ==
    /\ TotalsReturned
    /\ Len(transactions) = 2
    /\ call.ret.income = 1000
    /\ call.ret.expenses = 2000
    /\ call.ret.balance = -1000

C3_SavingsRate ==
    /\ (session = "library" /\ call.op = "calculate_savings_rate") =>
         IF call.income <= 0
         THEN call.ret.num = 0
         ELSE call.ret = Frac((call.income - call.expenses) * 100, call.income)
    /\ session = "app" =>
         IF SumWhere(IsIncomeName) <= 0
         THEN summary.saving_rate.num = 0
         ELSE summary.saving_rate =
                 Frac((SumWhere(IsIncomeName) - SumWhere(IsExpenseName)) * 100,
                      SumWhere(IsIncomeName))

(* C4: the breach flag of a category is true exactly when a limit is       *)
(* configured for it and the category total is strictly greater than the   *)
(* limit, whatever the value of the limit, in recalculate_all and in       *)
(* check_budget_limit.                                                     *)
CategorySum(mc) ==
    SumIdx({i \in DOMAIN Entries : Entries[i].category = mc},
           [i \in DOMAIN Entries |-> Entries[i].amount])

C4_BreachIffAboveLimit ==
    /\ Recalculated =>
         \A i \in DOMAIN totals_per_category :
            totals_per_category[i].warn <=>
               /\ totals_per_category[i].category \in DOMAIN budget_warnings
               /\ CategorySum(totals_per_category[i].category)
                     > budget_warnings[totals_per_category[i].category]
    /\ (session = "library" /\ call.op = "check_budget_limit") =>
         (call.ret.is_exceeded <=> call.amount > call.limit)

(* C5: the top-N ranking is built only from entries that calculate_totals  *)
(* counts as expenses: it is the ranking of the ledger without its income  *)
(* entries.                                                                *)
ExpenseTransactions == SelectSeq(transactions, LAMBDA e : IsExpenseName(e.category))
ExpenseFields == SelectSeq(labels_by_item, LAMBDA f : IsExpenseName(f.category))

C5_TopWithoutIncome ==
    /\ (session = "library" /\ call.op = "get_top_expenses") =>
         call.ret = get_top_expenses(ExpenseTransactions, call.n)
    /\ session = "app" =>
         summary.top3 = Take(SortedDesc(ExpenseBySub(<< >>, ExpenseFields)), 3)

(* C6: the top-N ranking groups the non-income entries by the pair (main   *)
(* category, subcategory): each returned amount is the sum of the entries  *)
(* of one pair, two different pairs are never merged, the groups are in    *)
(* descending order of their sums with ties in first-seen order, and       *)
(* min(n, number of groups) groups are returned, labelled "{main} / {sub}".*)
(* (For get_top_expenses the statement is taken on the ledgers on which    *)
(* its income test agrees with the aggregation rule; C5 is about the       *)
(* others.)                                                                *)
RECURSIVE PairGroups(_, _)
PairGroups(gs, es) ==
    IF es = << >> THEN gs
    ELSE LET e == Head(es)
             same == {i \in DOMAIN gs :
                        gs[i].category = e.category /\ gs[i].subcat = e.subcat}
         IN PairGroups(
              IF same = {}
              THEN Append(gs, [category |-> e.category, subcat |-> e.subcat,
                               amount |-> e.amount])
              ELSE [i \in DOMAIN gs |->
                      IF i \in same THEN [gs[i] EXCEPT !.amount = @ + e.amount] ELSE gs[i]],
              Tail(es))

RankingByPair(n) ==
    LET groups == PairGroups(<< >>, SelectSeq(Entries, LAMBDA e : IsExpenseName(e.category)))
        ranked == Take(SortedDesc(groups), n)
    IN [i \in DOMAIN ranked |->
          [label |-> Label(ranked[i].category, ranked[i].subcat),
           amount |-> ranked[i].amount]]

IncomeTestsAgree ==
    \A i \in DOMAIN transactions :
       IsIncomeName(transactions[i].category)
          <=> Contains(LitEinnahmen, transactions[i].category)

C6_TopGroupsByPair ==
    /\ (session = "library" /\ call.op = "get_top_expenses" /\ IncomeTestsAgree) =>
         call.ret = RankingByPair(call.n)
    /\ session = "app" => summary.top3 = RankingByPair(3)

----------------------------------------------------------------------------
(* The helper functions on their own: ensure_float and                     *)
(* validate_month_format applied to bounded sets of inputs.                *)

MaxTextLen == 3

TextAlphabet == {"1", ",", ".", "-", " ", "a"}

\* every text of at most MaxTextLen characters over TextAlphabet
ShortTexts == UNION {[1..n -> TextAlphabet] : n \in 0..MaxTextLen}

NamedTexts == {
    <<"1","2","3",",","4","5">>, <<"1","2","3",".","4","5">>, <<"1","0">>,
    <<"a","b","c">>, <<" "," ","7",",","5","\n">>, <<"1",".","2","3","4",",","5">>,
    <<"+","2",",","5">>, <<"\t"," ","\n">> }

FloatInputs ==
    {PyStr(t) : t \in ShortTexts \cup NamedTexts}
        \cup {PyNone, PyInt(5), PyInt(-3), PyFloat(3500), PyFloat(-250)}

\* month keys of the right shape, and the same with one character added or
\* one character dropped
KeyYears == {1899, 1900, 2025, 2100, 2101}
ShapedKeys == {IntStr(y) \o <<"-">> \o Pad2(m) : y \in KeyYears, m \in 0..13}
ExtraChars == {"\n", " ", "1", "a", "-"}

MonthInputs ==
    ShapedKeys
        \cup {k \o <<c>> : k \in ShapedKeys, c \in ExtraChars}
        \cup {<<c>> \o k : k \in ShapedKeys, c \in ExtraChars}
        \cup {SubSeq(k, 1, 6) : k \in ShapedKeys}
        \cup {[k EXCEPT ![5] = "/"] : k \in ShapedKeys}
        \cup {[k EXCEPT ![2] = "a"] : k \in ShapedKeys}
        \cup {<<"a","b","c">>, << >>}

InitHelpers ==
    /\ session = "helpers"
    /\ transactions = << >>
    /\ call = NoCall
    /\ LibraryIdle

EnsureFloat(x) ==
    /\ session = "helpers"
    /\ call' = [op |-> "ensure_float", arg |-> x, ret |-> ensure_float(x)]
    /\ UNCHANGED <<session, transactions, appvars>>

ValidateMonthFormat(ym_str) ==
    /\ session = "helpers"
    /\ call' = [op |-> "validate_month_format", arg |-> ym_str,
                ret |-> validate_month_format(ym_str)]
    /\ UNCHANGED <<session, transactions, appvars>>

NextHelpers ==
    \/ \E x \in FloatInputs : EnsureFloat(x)
    \/ \E t \in MonthInputs : ValidateMonthFormat(t)

SpecHelpers == InitHelpers /\ [][NextHelpers]_vars

----------------------------------------------------------------------------
(* C7: ensure_float never raises; it strips surrounding whitespace, takes  *)
(* a comma for the decimal separator, returns 0.0 for an empty or          *)
(* whitespace-only text and for every input that is not a number, and the  *)
(* numeric value otherwise ("123,45" -> 123.45, "10" -> 10.0).             *)

\* the text of the input without surrounding whitespace
Core(x) == Strip(str(x))

Separators == {",", "."}

\* a decimal number: an optional sign, then digits with at most one
\* separator among them and at least one digit
Unsigned(t) == IF t # << >> /\ t[1] \in {"+", "-"} THEN Tail(t) ELSE t

IsDecimal(t) ==
    /\ \A i \in DOMAIN Unsigned(t) : IsDigit(Unsigned(t)[i]) \/ Unsigned(t)[i] \in Separators
    /\ Cardinality({i \in DOMAIN Unsigned(t) : Unsigned(t)[i] \in Separators}) <= 1
    /\ \E i \in DOMAIN Unsigned(t) : IsDigit(Unsigned(t)[i])

\* its value in thousandths: the digits read as one number, scaled by the
\* number of digits after the separator
DecimalValue(t) ==
    LET u == Unsigned(t)
        digits == SelectSeq(u, IsDigit)
        seps == {i \in DOMAIN u : u[i] \in Separators}
        after == IF seps = {} THEN 0 ELSE Len(u) - (CHOOSE i \in seps : TRUE)
        magnitude == (NatOf(digits) * Scale) \div (10 ^ after)
    IN IF t[1] = "-" THEN -magnitude ELSE magnitude

C7_EnsureFloatTotal ==
    call.op = "ensure_float" =>
        /\ call.ret.exc = "none"
        /\ call.ret.value = IF IsDecimal(Core(call.arg)) THEN DecimalValue(Core(call.arg)) ELSE 0
        /\ call.arg = PyStr(<<"1","2","3",",","4","5">>) => call.ret.value = 123450
        /\ call.arg = PyStr(<<"1","0">>) => call.ret.value = 10000
        /\ call.arg \in {PyStr(<< >>), PyStr(<<"\t"," ","\n">>), PyStr(<<"a","b","c">>), PyNone}
              => call.ret.value = 0

\* a comma as decimal separator inside surrounding whitespace
C7_Witness ==
    /\ call.op = "ensure_float"
    /\ call.arg = PyStr(<<" "," ","7",",","5","\n">>)
    /\ call.ret = [exc |-> "none", value |-> 7500]

(* C8: validate_month_format returns true exactly for the texts made of    *)
(* four digits, a hyphen and two digits and nothing else, with the month   *)
(* in 1..12 and the year in 1900..2100.                                    *)
IsExactMonthKey(t) ==
    /\ Len(t) = 7
    /\ \A i \in {1, 2, 3, 4, 6, 7} : IsDigit(t[i])
    /\ t[5] = "-"
    /\ NatOf(SubSeq(t, 6, 7)) \in 1..12
    /\ NatOf(SubSeq(t, 1, 4)) \in 1900..2100

C8_ValidateExactKey ==
    call.op = "validate_month_format" => (call.ret <=> IsExactMonthKey(call.arg))

----------------------------------------------------------------------------
(* BudgetApp: month files, navigation and the multi-month series.          *)

\* a month file that json.load cannot read
Corrupt == [kind |-> "corrupt"]

\* a month file as on_save_click writes it: the schema and, for every entry
\* field, the texts of amount and note
Payload(schema, values) ==
    [kind |-> "json", has_structure |-> TRUE, structure |-> schema,
     values_type |-> "dict", values |-> values]

\* a month file that is valid JSON but whose "values" is a list
ListValues(schema) ==
    [kind |-> "json", has_structure |-> TRUE, structure |-> schema,
     values_type |-> "list", values |-> << >>]

Value(k, amount, note) ==
    [category |-> k[1], subcat |-> k[2], item |-> k[3], amount |-> amount, note |-> note]

\* values.get(mc, {}).get(sc, {}).get(item, {}) and then .get("amount", "0"),
\* .get("note", ""), as the texts the StringVars hold afterwards
LoadedField(values, k) ==
    IF HasKey(values, k)
    THEN Field(k, str(FieldAt(values, k).amount), FieldAt(values, k).note)
    ELSE Field(k, Zero, Empty)

\* load_month(ym): st is the view [structure, labels, totals, summary]
load_month(ym, fs, limits, st) ==
    LET Shown(schema, labels, r) ==
          [structure |-> schema, labels |-> labels, totals |-> r.totals, summary |-> r.summary]
        Refresh(schema, labels, totals) ==
          Shown(schema, labels, recalculate_all(labels, totals, limits))
        Fill(schema, ui, values) ==
          Refresh(schema,
                  [i \in DOMAIN ui.labels |-> LoadedField(values, KeyOf(ui.labels[i]))],
                  ui.totals)
        Interrupted(schema, ui) ==
          [structure |-> schema, labels |-> ui.labels, totals |-> ui.totals,
           summary |-> st.summary]
        Rebuild(schema, ui, payload) ==
          IF payload.values_type # "dict" /\ ui.labels # << >>
          THEN Interrupted(schema, ui)
          ELSE Fill(schema, ui, payload.values)
        Loaded(schema, payload) ==
          Rebuild(schema, build_categories_ui(schema, st.labels), payload)
    IN IF ym \notin DOMAIN fs
       THEN Refresh(st.structure,
                    [i \in DOMAIN st.labels |->
                       [st.labels[i] EXCEPT !.amt = Zero, !.note = Empty]],
                    st.totals)
       ELSE IF fs[ym].kind # "json"
       THEN st
       ELSE Loaded(IF fs[ym].has_structure THEN fs[ym].structure ELSE st.structure,
                     fs[ym])

View == [structure |-> structure, labels |-> labels_by_item,
         totals |-> totals_per_category, summary |-> summary]

SetView(st) ==
    /\ structure' = st.structure
    /\ labels_by_item' = st.labels
    /\ totals_per_category' = st.totals
    /\ summary' = st.summary

\* the month key navigate_month moves to (year and month parsed from the
\* current key)
StepMonthNoRollover(year, month, direction) ==
    LET m == month + direction
    IN IF m > 12 THEN IntStr(year) \o <<"-">> \o Pad2(1)
       ELSE IF m < 1 THEN IntStr(year) \o <<"-">> \o Pad2(12)
       ELSE IntStr(year) \o <<"-">> \o Pad2(m)

StepMonth(year, month, direction) ==
    LET m == month + direction
    IN IF m > 12 THEN IntStr(year + 1) \o <<"-">> \o Pad2(1)
       ELSE IF m < 1 THEN IntStr(year - 1) \o <<"-">> \o Pad2(12)
       ELSE IntStr(year) \o <<"-">> \o Pad2(m)

MaxHandled == 2

navigate_month(direction) ==
    /\ session = "app"
    /\ handled < MaxHandled
    /\ handled' = handled + 1
    /\ \E p \in {ParseYearMonth(current_month)} :
          IF p.exc # "none"
          THEN /\ call' = [op |-> "navigate_month", direction |-> direction,
                           from |-> current_month, failed |-> TRUE]
               /\ UNCHANGED <<current_month, structure, labels_by_item,
                              totals_per_category, summary, DEFAULT_STRUCTURE>>
          ELSE /\ current_month' = StepMonth(p.year, p.month, direction)
               /\ DEFAULT_STRUCTURE' = Replaced(DEFAULT_STRUCTURE, current_month', files)
               /\ \E st \in {load_month(current_month', files, budget_warnings, View)} :
                     SetView(st)
               /\ call' = [op |-> "navigate_month", direction |-> direction,
                           from |-> current_month, failed |-> FALSE]
    /\ UNCHANGED <<session, transactions, budget_warnings, settings_file, files>>

\* "if not month": None and the empty text are false
Falsy(month) == month = None \/ month = << >>

\* month = current; for _ in range(i): month = get_previous_month(month),
\* leaving the loop as soon as month is false
RECURSIVE MonthBack(_, _)
MonthBack(month, i) ==
    IF i = 0 \/ Falsy(month) THEN month ELSE MonthBack(get_previous_month(month), i - 1)

\* the loop "for i in range(num_months)" from step i on: the (month, data)
\* pairs appended to months_data
RECURSIVE CollectMonths(_, _, _, _)
CollectMonths(current, i, num_months, fs) ==
    IF i >= num_months THEN << >>
    ELSE LET Visit(month) ==
               IF Falsy(month) THEN << >>
               ELSE (IF month \in DOMAIN fs /\ fs[month].kind = "json"
                     THEN <<[month |-> month, data |-> fs[month]]>>
                     ELSE << >>)
                    \o CollectMonths(current, i + 1, num_months, fs)
         IN Visit(MonthBack(current, i))

\* the months whose file name is tested with os.path.exists, in loop order
RECURSIVE LookedUp(_, _, _)
LookedUp(current, i, num_months) ==
    IF i >= num_months THEN << >>
    ELSE LET Visit(month) ==
               IF Falsy(month) THEN << >>
               ELSE <<month>> \o LookedUp(current, i + 1, num_months)
         IN Visit(MonthBack(current, i))

\* list.reverse()
Reverse(seq) == [i \in 1..Len(seq) |-> seq[Len(seq) + 1 - i]]

MonthsDataNewestFirst(current, num_months, fs) == CollectMonths(current, 0, num_months, fs)

\* months_data of update_charts and update_trends after the loop and reverse()
MonthsData(current, num_months, fs) == Reverse(CollectMonths(current, 0, num_months, fs))

MaxCount == 3

\* the loop over one month's values in update_charts and update_trends:
\* income for a main category containing "Einnahmen", expense otherwise
RECURSIVE MonthFigures(_, _)
MonthFigures(t, values) ==
    IF values = << >> THEN t
    ELSE LET Count(mc, amt) ==
               IF Contains(LitEinnahmen, mc)
               THEN [t EXCEPT !.income = @ + amt]
               ELSE [t EXCEPT !.expense = @ + amt]
         IN MonthFigures(Count(Head(values).category, ensure_float(Head(values).amount).value),
                         Tail(values))

\* incomes and expenses, one figure per month of months_data
Figures(months_data) ==
    [i \in DOMAIN months_data |->
        MonthFigures([income |-> 0, expense |-> 0], months_data[i].data.values)]

\* update_charts with num_months read from the combobox
update_charts(num_months) ==
    /\ session = "app"
    /\ \E months_data \in {MonthsData(current_month, num_months, files)} :
          call' = [op |-> "update_charts", num_months |-> num_months,
                   start |-> current_month,
                   looked_up |-> LookedUp(current_month, 0, num_months),
                   months_data |-> months_data, figures |-> Figures(months_data)]
    /\ UNCHANGED <<session, transactions, appvars>>

\* the months looked at by update_trends
TrendMonths == 6

\* update_trends up to its series: fewer than 3 months end the handler
update_trends ==
    /\ session = "app"
    /\ \E months_data \in {MonthsData(current_month, TrendMonths, files)} :
          call' = IF Len(months_data) < 3
                  THEN [op |-> "update_trends", start |-> current_month, enough |-> FALSE]
                  ELSE [op |-> "update_trends", start |-> current_month, enough |-> TRUE,
                        months_data |-> months_data, figures |-> Figures(months_data)]
    /\ UNCHANGED <<session, transactions, appvars>>

\* inputs: the month shown at start-up and the files of the profile folder
Month202411 == <<"2","0","2","4","-","1","1">>
Month202412 == <<"2","0","2","4","-","1","2">>
Month190001 == <<"1","9","0","0","-","0","1">>
Month189912 == <<"1","8","9","9","-","1","2">>
Month210012 == <<"2","1","0","0","-","1","2">>

StartMonths == {Month202501, Month190001, Month210012, <<"a","b","c">>}

FileMonths == {Month202411, Month202412, Month202501, Month190001, Month189912}

SavedPayload ==
    Payload(SchemaA,
            <<Value(<<Einnahmen, Gehalt, Hauptjob>>, PyStr(<<"3","0","0","0">>), Empty),
              Value(<<Fixkosten, Wohnen, Miete>>, PyStr(<<"1","0","0","0">>), Empty),
              Value(<<VariableKosten, Essen, Supermarkt>>, PyStr(<<"2","0","0">>), Empty)>>)

\* a month saved under a schema whose income category is "Einkommen"
SavedEinkommen ==
    Payload(SchemaB,
            <<Value(<<Einkommen, Gehalt, Hauptjob>>, PyStr(<<"3","0","0","0">>), Empty),
              Value(<<Sparen, Ziele, Rente>>, PyStr(<<"2","0","0">>), Empty)>>)

FileSystems ==
    UNION {[ms -> {SavedPayload, Corrupt}] : ms \in SUBSET FileMonths}
       \cup {[m \in {Month202501} |-> SavedEinkommen]}

\* BudgetApp.__init__ with SchemaA in settings.json: the fields are built and
\* load_month(current_month) runs
InitMonths ==
    /\ session = "app"
    /\ transactions = << >>
    /\ call = NoCall
    /\ budget_warnings = << >>
    /\ settings_file = SettingsDoc(<< >>, SchemaA)
    /\ current_month \in StartMonths
    /\ files \in FileSystems
    /\ handled = 0
    /\ DEFAULT_STRUCTURE = Unshared(SchemaA)
    /\ \E ui \in {build_categories_ui(SchemaA, << >>)} :
          \E st \in {load_month(current_month, files, budget_warnings,
                                [structure |-> SchemaA, labels |-> ui.labels,
                                 totals |-> ui.totals,
                                 summary |-> recalculate_all(<< >>, << >>, << >>).summary])} :
             /\ structure = st.structure
             /\ labels_by_item = st.labels
             /\ totals_per_category = st.totals
             /\ summary = st.summary

NextMonths ==
    \/ \E direction \in {-1, 1} : navigate_month(direction)
    \/ \E num_months \in 0..MaxCount : update_charts(num_months)
    \/ update_trends

SpecMonths == InitMonths /\ [][NextMonths]_vars

----------------------------------------------------------------------------
(* Properties of month arithmetic and of the multi-month series.           *)

\* a month key of the range the application accepts
ValidKey(x) == IsExactMonthKey(x)

\* months since year 0 of a key made of digits, a hyphen and digits
MonthIndex(x) == NatOf(SubSeq(x, 1, 4)) * 12 + NatOf(SubSeq(x, 6, 7)) - 1

\* four digits, a hyphen, two digits naming a month
WellFormedKey(x) ==
    /\ Len(x) = 7
    /\ \A i \in {1, 2, 3, 4, 6, 7} : IsDigit(x[i])
    /\ x[5] = "-"
    /\ NatOf(SubSeq(x, 6, 7)) \in 1..12

Navigated == call.op = "navigate_month" /\ ValidKey(call.from)

C9_AfterNavigate ==
    Navigated =>
        /\ ~call.failed
        /\ WellFormedKey(current_month)
        /\ MonthIndex(current_month) = MonthIndex(call.from) + call.direction
        /\ (call.direction = -1 /\ SubSeq(call.from, 6, 7) = <<"0", "1">>)
              => /\ SubSeq(current_month, 6, 7) = <<"1", "2">>
                 /\ NatOf(SubSeq(current_month, 1, 4)) = NatOf(SubSeq(call.from, 1, 4)) - 1
        /\ (call.direction = 1 /\ SubSeq(call.from, 6, 7) = <<"1", "2">>)
              => /\ SubSeq(current_month, 6, 7) = <<"0", "1">>
                 /\ NatOf(SubSeq(current_month, 1, 4)) = NatOf(SubSeq(call.from, 1, 4)) + 1
        /\ call.direction = -1 => get_previous_month(call.from) = current_month
        /\ call.direction = 1 => get_previous_month(current_month) = call.from

\* a navigation that undoes the one before it
C9_BackAgain ==
    (/\ Navigated
     /\ handled' = handled + 1
     /\ call'.op = "navigate_month"
     /\ call'.direction = 0 - call.direction)
        => current_month' = call.from

KeyBack(start, i) ==
    IF i = 0 THEN start
    ELSE LET t == MonthIndex(start) - i
         IN IntStr(t \div 12) \o <<"-">> \o Pad2((t % 12) + 1)

\* start, previous(start), ..., previous^(n-1)(start); a start that is no
\* month key has no previous month
Candidates(start, n) ==
    IF n = 0 THEN {}
    ELSE IF WellFormedKey(start) THEN {KeyBack(start, i) : i \in 0..(n - 1)}
    ELSE {start}

Readable(m) == m \in DOMAIN files /\ files[m].kind = "json"

SeriesBuilt ==
    \/ call.op = "update_charts"
    \/ call.op = "update_trends" /\ call.enough

SeriesCount == IF call.op = "update_charts" THEN call.num_months ELSE TrendMonths

(* C10: the series of update_charts and update_trends holds exactly the    *)
(* readable months among start and the n - 1 months before it, each with   *)
(* its file's content, in strictly ascending order of month, so no month   *)
(* twice and at most n elements.                                           *)
C10_SeriesOldestFirst ==
    SeriesBuilt =>
        LET md == call.months_data
            n == SeriesCount
        IN /\ Len(md) <= n
           /\ \A i \in 1..Len(md) :
                 /\ md[i].month \in Candidates(call.start, n)
                 /\ Readable(md[i].month)
                 /\ md[i].data = files[md[i].month]
           /\ \A m \in Candidates(call.start, n) :
                 Readable(m) => \E i \in 1..Len(md) : md[i].month = m
           /\ \A i \in 1..Len(md) : \A j \in 1..Len(md) :
                 i < j => MonthIndex(md[i].month) < MonthIndex(md[j].month)

C10_Witness ==
    /\ call.op = "update_charts"
    /\ call.num_months = 3
    /\ call.start = Month202501
    /\ Month202412 \in DOMAIN files /\ files[Month202412] = Corrupt
    /\ Len(call.months_data) = 2
    /\ call.months_data[1].month = Month202411

(* C11: from a valid start month the series never looks up or holds a      *)
(* month key that validate_month_format rejects: walking back ends at the  *)
(* first such key, as at 1899-12 below the minimum year.                   *)
C11_SeriesOnlyValidKeys ==
    /\ (call.op = "update_charts" /\ ValidKey(call.start)) =>
          \A i \in 1..Len(call.looked_up) : validate_month_format(call.looked_up[i])
    /\ (SeriesBuilt /\ ValidKey(call.start)) =>
          \A i \in 1..Len(call.months_data) :
             validate_month_format(call.months_data[i].month)

----------------------------------------------------------------------------
(* BudgetCalculator.forecast_trend.  np.polyfit(x, y, 1) is the least-      *)
(* squares line, computed here in exact fractions (the rounding of the      *)
(* floating-point solver is not modelled).                                  *)

RECURSIVE SumSeq(_)
SumSeq(seq) == IF seq = << >> THEN 0 ELSE Head(seq) + SumSeq(Tail(seq))

\* x = np.arange(len(historical_data))
Arange(lo, hi) == [i \in 1..(hi - lo) |-> lo + i - 1]

\* np.polyfit(x, y, 1) for x = 0, 1, ..., len(y) - 1: [slope, intercept],
\* or LinAlgError when the normal equations are singular
polyfit(y) ==
    LET Solve(n, sx, sxx, sy, sxy) ==
          IF n * sxx - sx * sx = 0
          THEN [exc |-> "LinAlgError", slope |-> FracZero, intercept |-> FracZero]
          ELSE [exc |-> "none",
                slope |-> Frac(n * sxy - sx * sy, n * sxx - sx * sx),
                intercept |-> Frac(sy * sxx - sx * sxy, n * sxx - sx * sx)]
        Sums(x) ==
          Solve(Len(y), SumSeq(x), SumSeq([i \in DOMAIN x |-> x[i] * x[i]]),
                SumSeq(y), SumSeq([i \in DOMAIN x |-> x[i] * y[i]]))
    IN Sums(Arange(0, Len(y)))

\* np.poly1d(coeffs)(xi)
poly1d(coeffs, xi) ==
    Frac(coeffs.slope.num * xi * coeffs.intercept.den
            + coeffs.intercept.num * coeffs.slope.den,
         coeffs.slope.den * coeffs.intercept.den)

forecast_trend_fit_single(historical_data, periods) ==
    LET Trend(coeffs, future_x) ==
          IF coeffs.exc # "none"
          THEN [exc |-> coeffs.exc, forecast |-> << >>, slope |-> FracZero,
                intercept |-> FracZero]
          ELSE [exc |-> "none",
                forecast |-> [i \in DOMAIN future_x |-> poly1d(coeffs, future_x[i])],
                slope |-> coeffs.slope, intercept |-> coeffs.intercept]
    IN IF Len(historical_data) < 1
       THEN [exc |-> "none",
             forecast |-> [i \in 1..periods |->
                             IF historical_data # << >>
                             THEN Frac(historical_data[Len(historical_data)], 1)
                             ELSE FracZero],
             slope |-> FracZero, intercept |-> FracZero]
       ELSE Trend(polyfit(historical_data),
                  Arange(Len(historical_data), Len(historical_data) + periods))

forecast_trend_from_last(historical_data, periods) ==
    LET Trend(coeffs, future_x) ==
          IF coeffs.exc # "none"
          THEN [exc |-> coeffs.exc, forecast |-> << >>, slope |-> FracZero,
                intercept |-> FracZero]
          ELSE [exc |-> "none",
                forecast |-> [i \in DOMAIN future_x |-> poly1d(coeffs, future_x[i])],
                slope |-> coeffs.slope, intercept |-> coeffs.intercept]
    IN IF Len(historical_data) < 2
       THEN [exc |-> "none",
             forecast |-> [i \in 1..periods |->
                             IF historical_data # << >>
                             THEN Frac(historical_data[Len(historical_data)], 1)
                             ELSE FracZero],
             slope |-> FracZero, intercept |-> FracZero]
       ELSE Trend(polyfit(historical_data),
                  Arange(Len(historical_data) - 1, Len(historical_data) - 1 + periods))

\* forecast_trend(historical_data, periods): (forecast, slope, intercept)
forecast_trend(historical_data, periods) ==
    LET Trend(coeffs, future_x) ==
          IF coeffs.exc # "none"
          THEN [exc |-> coeffs.exc, forecast |-> << >>, slope |-> FracZero,
                intercept |-> FracZero]
          ELSE [exc |-> "none",
                forecast |-> [i \in DOMAIN future_x |-> poly1d(coeffs, future_x[i])],
                slope |-> coeffs.slope, intercept |-> coeffs.intercept]
    IN IF Len(historical_data) < 2
       THEN [exc |-> "none",
             forecast |-> [i \in 1..periods |->
                             IF historical_data # << >>
                             THEN Frac(historical_data[Len(historical_data)], 1)
                             ELSE FracZero],
             slope |-> FracZero, intercept |-> FracZero]
       ELSE Trend(polyfit(historical_data),
                  Arange(Len(historical_data), Len(historical_data) + periods))

\* inputs: series of at most MaxHist values and at most MaxPeriods periods
MaxHist == 3
MaxPeriods == 2
HistValues == {0, 10, 20, 30}
Histories == UNION {[1..n -> HistValues] : n \in 0..MaxHist}

ForecastTrend(historical_data, periods) ==
    /\ session = "helpers"
    /\ call' = [op |-> "forecast_trend", historical_data |-> historical_data,
                periods |-> periods, ret |-> forecast_trend(historical_data, periods)]
    /\ UNCHANGED <<session, transactions, appvars>>

----------------------------------------------------------------------------
(* The classification of main-category names, on names that differ only    *)
(* in letter case.                                                         *)

NebenEinnahmen == <<"N","e","b","e","n","E","i","n","n","a","h","m","e","n">>
ExtraFix == <<"E","x","t","r","a"," ","F","i","x">>
MeineVariable == <<"M","e","i","n","e"," ","V","a","r","i","a","b","l","e">>
FIXKOSTEN == <<"F","I","X","K","O","S","T","E","N">>

CaseNames ==
    {Einnahmen, NebenEinnahmen, Fixkosten, FIXKOSTEN, ExtraFix, VariableKosten,
     MeineVariable, Sparen}
CaseVariants == CaseNames \cup {Lower(c) : c \in CaseNames}

\* pairs of different names that are equal up to letter case
CasePairs == {p \in CaseVariants \X CaseVariants : p[1] # p[2] /\ Lower(p[1]) = Lower(p[2])}

\* the ledger and the entry fields holding one amount under main category mc
OneEntry(mc, amount) == <<[category |-> mc, subcat |-> Gehalt, item |-> Hauptjob,
                           amount |-> amount, note |-> Empty]>>
OneField(mc, text) == <<Field(<<mc, Gehalt, Hauptjob>>, text, Empty)>>

\* calculate_totals and recalculate_all for the same amount under the names
\* a and b
CalculateTotalsFor(a, b, text) ==
    /\ session = "helpers"
    /\ \E amount \in {ensure_float(PyStr(text)).value} :
          call' = [op |-> "calculate_totals_for", a |-> a, b |-> b, amount |-> amount,
                   totals_a |-> calculate_totals(OneEntry(a, amount)),
                   totals_b |-> calculate_totals(OneEntry(b, amount)),
                   summary_a |-> recalculate_all(OneField(a, text), << >>, << >>).summary,
                   summary_b |-> recalculate_all(OneField(b, text), << >>, << >>).summary]
    /\ UNCHANGED <<session, transactions, appvars>>

NextCalculator ==
    \/ \E historical_data \in Histories, periods \in 0..MaxPeriods :
          ForecastTrend(historical_data, periods)
    \/ \E p \in CasePairs, text \in AmountTexts : CalculateTotalsFor(p[1], p[2], text)

SpecCalculator == InitHelpers /\ [][NextCalculator]_vars

----------------------------------------------------------------------------
(* Properties of forecast_trend.                                           *)

Forecast == call.op = "forecast_trend"

(* C12: forecast_trend returns exactly `periods` values and raises         *)
(* nothing; for a series of fewer than two points every value is the last  *)
(* known value (0 for the empty series) and slope and intercept are 0.     *)
C12_ForecastShortSeries ==
    Forecast =>
        /\ call.ret.exc = "none"
        /\ Len(call.ret.forecast) = call.periods
        /\ Len(call.historical_data) < 2 =>
              /\ call.ret.slope = FracZero
              /\ call.ret.intercept = FracZero
              /\ \A i \in 1..call.periods :
                    call.ret.forecast[i] =
                       IF call.historical_data = << >> THEN FracZero
                       ELSE [num |-> call.historical_data[Len(call.historical_data)],
                             den |-> 1]

C12_Witness ==
    /\ Forecast
    /\ call.historical_data = <<20>>
    /\ call.periods = 2
    /\ call.ret.forecast = <<[num |-> 20, den |-> 1], [num |-> 20, den |-> 1]>>

\* den(slope) * den(intercept) times the residual of the line at index i
\* (0-based) against the value y
Residual(slope, intercept, i, y) ==
    slope.num * intercept.den * i + intercept.num * slope.den
        - y * slope.den * intercept.den

\* the line through the series, when the series lies on a line
OnLine(h) == \A i \in 1..Len(h) : h[i] = h[1] + (h[2] - h[1]) * (i - 1)

(* C13: for at least two points, slope and intercept are those of the      *)
(* least-squares line over the indices 0, 1, ... (the residuals sum to 0   *)
(* and are orthogonal to the indices), the forecast is that line at the    *)
(* indices len, len + 1, ..., and a series on a line a*i + b gives slope   *)
(* a, intercept b and the continuation of the line.                        *)
C13_ForecastLeastSquares ==
    (Forecast /\ Len(call.historical_data) >= 2) =>
        LET h == call.historical_data
            slope == call.ret.slope
            intercept == call.ret.intercept
        IN /\ slope.den > 0 /\ intercept.den > 0
           /\ SumSeq([i \in 1..Len(h) |-> Residual(slope, intercept, i - 1, h[i])]) = 0
           /\ SumSeq([i \in 1..Len(h) |->
                        (i - 1) * Residual(slope, intercept, i - 1, h[i])]) = 0
           /\ \A j \in 1..call.periods :
                 /\ call.ret.forecast[j].den > 0
                 /\ call.ret.forecast[j].num * slope.den * intercept.den =
                       call.ret.forecast[j].den
                          * (slope.num * intercept.den * (Len(h) + j - 1)
                                + intercept.num * slope.den)
           /\ OnLine(h) =>
                 /\ slope = [num |-> h[2] - h[1], den |-> 1]
                 /\ intercept = [num |-> h[1], den |-> 1]
                 /\ \A j \in 1..call.periods :
                       call.ret.forecast[j] =
                          [num |-> h[1] + (h[2] - h[1]) * (Len(h) + j - 1), den |-> 1]

C13_Witness ==
    /\ Forecast
    /\ call.historical_data = <<10, 20, 30>>
    /\ call.periods = 2
    /\ call.ret.slope = [num |-> 10, den |-> 1]
    /\ call.ret.intercept = [num |-> 10, den |-> 1]
    /\ call.ret.forecast = <<[num |-> 40, den |-> 1], [num |-> 50, den |-> 1]>>

----------------------------------------------------------------------------
(* Properties of the classification.                                       *)

(* C20: two main-category names that differ only in letter case are        *)
(* classified alike: the same amount under either name gives the same      *)
(* income, expense, fixed and variable totals in calculate_totals and in   *)
(* recalculate_all.                                                        *)
C20_ClassificationIgnoresCase ==
    call.op = "calculate_totals_for" =>
        /\ call.totals_a.income = call.totals_b.income
        /\ call.totals_a.expenses = call.totals_b.expenses
        /\ call.totals_a.fixed = call.totals_b.fixed
        /\ call.totals_a.variable = call.totals_b.variable
        /\ call.summary_a.income = call.summary_b.income
        /\ call.summary_a.expense = call.summary_b.expense
        /\ call.summary_a.fixed = call.summary_b.fixed
        /\ call.summary_a.variable = call.summary_b.variable

----------------------------------------------------------------------------
(* Persistence: DataManager (data_manager.py) and the save and load        *)
(* handlers of BudgetApp on the files of one profile folder.               *)

\* float(x) for a Python value
float_of(x) ==
    IF x.type = "str" THEN float(x.chars)
    ELSE IF x.type = "float" THEN [exc |-> "none", value |-> x.thousandths]
    ELSE IF x.type = "int" THEN [exc |-> "none", value |-> x.int * Scale]
    ELSE [exc |-> "TypeError", value |-> 0]

\* json.dump followed by json.load of a float: the number is written as
\* text and parsed again
JsonNumber(v) == PyFloat(float(FloatStr(v)).value)

\* payload["values"][category][subcat][item] = ...: in the nested mapping
\* the entry follows the entries of its subcategory, or else those of its
\* category, or else comes last; an existing path is overwritten
NestPut(values, e) ==
    LET Place(same_sub, same_cat) ==
          IF same_sub # {}
          THEN SubSeq(values, 1, SetMax(same_sub)) \o <<e>>
                  \o SubSeq(values, SetMax(same_sub) + 1, Len(values))
          ELSE IF same_cat # {}
          THEN SubSeq(values, 1, SetMax(same_cat)) \o <<e>>
                  \o SubSeq(values, SetMax(same_cat) + 1, Len(values))
          ELSE Append(values, e)
    IN IF HasKey(values, KeyOf(e))
       THEN [i \in DOMAIN values |-> IF KeyOf(values[i]) = KeyOf(e) THEN e ELSE values[i]]
       ELSE Place({i \in DOMAIN values :
                     values[i].category = e.category /\ values[i].subcat = e.subcat},
                  {i \in DOMAIN values : values[i].category = e.category})

to_dict_whole_amount(e) == Value(KeyOf(e), PyInt(e.amount \div Scale), e.note)

\* Transaction.to_dict as it is read back from the file
to_dict(e) == Value(KeyOf(e), JsonNumber(e.amount), e.note)

\* the loop of save_month over get_all_transactions().items()
RECURSIVE SaveLoop(_, _)
SaveLoop(values, txs) ==
    IF txs = << >> THEN values ELSE SaveLoop(NestPut(values, to_dict(Head(txs))), Tail(txs))

\* DataManager.save_month: the document written to the month file
save_month(month_data, schema) == Payload(schema, SaveLoop(<< >>, month_data))

\* Transaction.from_dict(trans_data): float(amount), str(note)
from_dict(trans_data) ==
    LET Made(amount) ==
          IF amount.exc # "none" THEN [exc |-> amount.exc, transaction |-> Transaction(0, Empty)]
          ELSE [exc |-> "none", transaction |-> Transaction(amount.value, trans_data.note)]
    IN Made(float_of(trans_data.amount))

\* the loop of DataManager.load_month over the nested values
RECURSIVE LoadLoop(_, _)
LoadLoop(month_data, values) ==
    IF values = << >> THEN [exc |-> "none", month_data |-> month_data]
    ELSE LET Put(t) ==
               IF t.exc # "none" THEN [exc |-> t.exc, month_data |-> month_data]
               ELSE LoadLoop(DictSet(month_data, KeyOf(Head(values)), t.transaction),
                             Tail(values))
         IN Put(from_dict(Head(values)))

\* load_month from json.load on: the exception raised or the MonthData
\* returned (none: nothing is returned), and self.structure afterwards
ReadMonthFile(data, schema) ==
    LET Loaded(r, new_schema) ==
          IF r.exc # "none"
          THEN [exc |-> r.exc, none |-> TRUE, ret |-> << >>, structure |-> new_schema]
          ELSE [exc |-> "none", none |-> FALSE, ret |-> r.month_data,
                structure |-> new_schema]
        Read(new_schema) ==
          IF data.values_type # "dict"
          THEN [exc |-> "AttributeError", none |-> TRUE, ret |-> << >>,
                structure |-> new_schema]
          ELSE Loaded(LoadLoop(<< >>, data.values), new_schema)
    IN IF data.kind # "json"
       THEN [exc |-> "ValueError", none |-> TRUE, ret |-> << >>, structure |-> schema]
       ELSE Read(IF data.has_structure THEN data.structure ELSE schema)

DataManager_load_month_opening_absent(month, fs, schema) ==
    IF month \notin DOMAIN fs
    THEN [exc |-> "FileNotFoundError", none |-> TRUE, ret |-> << >>, structure |-> schema]
    ELSE ReadMonthFile(fs[month], schema)

\* DataManager.load_month(month): None for a month without a file
DataManager_load_month(month, fs, schema) ==
    IF month \notin DOMAIN fs
    THEN [exc |-> "none", none |-> TRUE, ret |-> << >>, structure |-> schema]
    ELSE ReadMonthFile(fs[month], schema)

get_transaction_setdefault(txs, k) ==
    IF HasKey(txs, k)
    THEN [ret |-> Transaction(FieldAt(txs, k).amount, FieldAt(txs, k).note),
          transactions |-> txs]
    ELSE [ret |-> Transaction(0, Empty),
          transactions |-> DictSet(txs, k, Transaction(0, Empty))]

\* MonthData.get_transaction: self.transactions.get(key, Transaction())
get_transaction(txs, k) ==
    IF HasKey(txs, k)
    THEN [ret |-> Transaction(FieldAt(txs, k).amount, FieldAt(txs, k).note),
          transactions |-> txs]
    ELSE [ret |-> Transaction(0, Empty), transactions |-> txs]

\* the document on_save_click writes: the schema and the stripped texts of
\* every entry field
RECURSIVE SaveFieldsLoop(_, _)
SaveFieldsLoop(values, labels) ==
    IF labels = << >> THEN values
    ELSE SaveFieldsLoop(
            NestPut(values, Value(KeyOf(Head(labels)), PyStr(Strip(Head(labels).amt)),
                                  Strip(Head(labels).note))),
            Tail(labels))

on_save_click_payload(schema, labels) == Payload(schema, SaveFieldsLoop(<< >>, labels))

\* f[k] = v for a mapping kept as a function
Put(f, k, v) == [x \in (DOMAIN f) \cup {k} |-> IF x = k THEN v ELSE f[x]]

\* on_save_click: nothing is written for a month key that does not validate
on_save_click ==
    /\ session = "app"
    /\ IF ~validate_month_format(Strip(current_month))
       THEN /\ call' = [op |-> "on_save_click", saved |-> FALSE]
            /\ UNCHANGED <<files, settings_file>>
       ELSE /\ files' = Put(files, Strip(current_month),
                            on_save_click_payload(structure, labels_by_item))
            /\ settings_file' = SettingsDoc(budget_warnings, structure)
            /\ call' = [op |-> "on_save_click", saved |-> TRUE]
    /\ UNCHANGED <<session, transactions, structure, labels_by_item, totals_per_category,
                   summary, budget_warnings, current_month, handled, DEFAULT_STRUCTURE>>

\* load_month shows an error box: json.load failed, or values.get failed
LoadFails(ym, fs, labels) ==
    /\ ym \in DOMAIN fs
    /\ \/ fs[ym].kind # "json"
       \/ /\ fs[ym].values_type # "dict"
          /\ build_categories_ui(IF fs[ym].has_structure THEN fs[ym].structure ELSE structure,
                                 labels).labels # << >>

\* on_load_click: load_month(current_month) when the month key validates
on_load_click ==
    /\ session = "app"
    /\ IF ~validate_month_format(current_month)
       THEN /\ call' = [op |-> "on_load_click", loaded |-> FALSE, error |-> FALSE]
            /\ UNCHANGED <<structure, labels_by_item, totals_per_category, summary,
                           DEFAULT_STRUCTURE>>
       ELSE /\ \E st \in {load_month(current_month, files, budget_warnings, View)} :
                  SetView(st)
            /\ DEFAULT_STRUCTURE' = Replaced(DEFAULT_STRUCTURE, current_month, files)
            /\ call' = [op |-> "on_load_click", loaded |-> TRUE,
                        error |-> LoadFails(current_month, files, labels_by_item)]
    /\ UNCHANGED <<session, transactions, budget_warnings, settings_file, current_month,
                   files, handled>>

\* DataManager.save_month(month_data) for the ledger of the current month
SaveMonth ==
    /\ session = "storage"
    /\ files' = Put(files, current_month, save_month(transactions, structure))
    /\ call' = [op |-> "save_month", month |-> current_month, ret |-> TRUE]
    /\ UNCHANGED <<session, transactions, structure, labels_by_item, totals_per_category,
                   summary, budget_warnings, settings_file, current_month, handled,
                   DEFAULT_STRUCTURE>>

\* DataManager.load_month(month)
LoadMonth(month) ==
    /\ session = "storage"
    /\ \E r \in {DataManager_load_month(month, files, structure)} :
          /\ structure' = r.structure
          /\ call' = [op |-> "load_month", month |-> month, exc |-> r.exc,
                      none |-> r.none, ret |-> r.ret]
    /\ DEFAULT_STRUCTURE' = Replaced(DEFAULT_STRUCTURE, month, files)
    /\ UNCHANGED <<session, transactions, labels_by_item, totals_per_category, summary,
                   budget_warnings, settings_file, current_month, files, handled>>

\* MonthData.get_transaction(category, subcategory, item)
GetTransaction(k) ==
    /\ session = "storage"
    /\ \E r \in {get_transaction(transactions, k)} :
          /\ transactions' = r.transactions
          /\ call' = [op |-> "get_transaction", key |-> k, ret |-> r.ret]
    /\ UNCHANGED <<session, appvars>>

\* inputs: the texts of the edited entry field, the ledger entries, and the
\* files found in the profile folder
FieldTexts == {<<"0">>, <<"1","2",",","5">>, << >>, <<"a","b","c">>, <<" ","7","."," ">>}
StorageKeys == {<<Einnahmen, Gehalt, Hauptjob>>, <<Fixkosten, Wohnen, Miete>>,
                <<Einnahmen, Gehalt, Rente>>}
UnknownKey == <<ExtraFix, Rad, Rente>>
StorageAmounts == {12500, -1000}

FieldsWith(text) ==
    <<Field(<<Einnahmen, Gehalt, Hauptjob>>, <<"1","0","0","0">>, Empty),
      Field(<<Fixkosten, Wohnen, Miete>>, text, <<"x">>),
      Field(<<VariableKosten, Essen, Supermarkt>>, Zero, Empty)>>

FoundFiles ==
    {Corrupt, ListValues(SchemaB),
     Payload(SchemaB, <<Value(<<Einkommen, Gehalt, Hauptjob>>, PyStr(<<"a","b","c">>), Empty)>>),
     save_month(<<[category |-> Fixkosten, subcat |-> Wohnen, item |-> Miete,
                   amount |-> 12500, note |-> <<"x">>]>>, SchemaA)}
        \cup {on_save_click_payload(SchemaA, FieldsWith(text)) : text \in FieldTexts}

Folders == {<< >>} \cup {[m \in {Month202501} |-> f] : f \in FoundFiles}

\* a DataManager on a profile folder, with an empty MonthData for 2025-01
InitDataManager ==
    /\ session = "storage"
    /\ transactions = << >>
    /\ call = NoCall
    /\ structure = SchemaA
    /\ labels_by_item = << >>
    /\ totals_per_category = << >>
    /\ summary = recalculate_all(<< >>, << >>, << >>).summary
    /\ budget_warnings = << >>
    /\ settings_file = SettingsDoc(<< >>, SchemaA)
    /\ current_month = Month202501
    /\ files \in Folders
    /\ handled = 0
    /\ DEFAULT_STRUCTURE = Unshared(SchemaA)

\* the application on the same folder, showing 2025-01 with edited fields
InitEdited ==
    /\ session = "app"
    /\ transactions = << >>
    /\ call = NoCall
    /\ structure = SchemaA
    /\ budget_warnings = << >>
    /\ settings_file = SettingsDoc(<< >>, SchemaA)
    /\ current_month = Month202501
    /\ files \in Folders
    /\ handled = 0
    /\ DEFAULT_STRUCTURE = Unshared(SchemaA)
    /\ \E text \in FieldTexts :
          /\ labels_by_item = FieldsWith(text)
          /\ \E r \in {recalculate_all(labels_by_item,
                                       build_categories_ui(SchemaA, << >>).totals,
                                       budget_warnings)} :
                /\ totals_per_category = r.totals
                /\ summary = r.summary

InitStorage == InitDataManager \/ InitEdited

NextStorage ==
    \/ \E k \in StorageKeys, a \in StorageAmounts :
          set_transaction(k[1], k[2], k[3], Transaction(a, <<"x">>))
    \/ \E k \in StorageKeys \cup {UnknownKey} : GetTransaction(k)
    \/ SaveMonth
    \/ \E month \in {Month202501, Month202412} : LoadMonth(month)
    \/ on_save_click
    \/ on_load_click

SpecStorage == InitStorage /\ [][NextStorage]_vars

----------------------------------------------------------------------------
(* BudgetApp.auto_fill_fixed: fixed costs taken over from the previous     *)
(* month.                                                                  *)

\* the truth value of a Python value
Truthy(x) ==
    IF x.type = "str" THEN x.chars # << >>
    ELSE IF x.type = "float" THEN x.thousandths # 0
    ELSE IF x.type = "int" THEN x.int # 0
    ELSE FALSE

\* "Fix" in mc or mc.lower().startswith("fix")
AutoFillCategory(mc) == Contains(LitFix, mc) \/ StartsWith(Lower(mc), LitFixLower)

\* one iteration of the loop of auto_fill_fixed
AutoFillField(f, prev_values) ==
    IF /\ AutoFillCategory(f.category)
       /\ HasKey(prev_values, KeyOf(f))
       /\ Truthy(FieldAt(prev_values, KeyOf(f)).amount)
    THEN Field(KeyOf(f), str(FieldAt(prev_values, KeyOf(f)).amount),
               FieldAt(prev_values, KeyOf(f)).note)
    ELSE f

\* auto_fill_fixed: how the handler ends, and the entry fields afterwards
AutoFill(enabled, current, fs, labels) ==
    LET Kept(outcome) == [outcome |-> outcome, labels |-> labels]
        Read(data) ==
          IF data.kind # "json" THEN Kept("failed")
          ELSE IF /\ data.values_type # "dict"
                  /\ \E i \in DOMAIN labels : AutoFillCategory(labels[i].category)
          THEN Kept("failed")
          ELSE [outcome |-> "filled",
                labels |-> [i \in DOMAIN labels |-> AutoFillField(labels[i], data.values)]]
        From(prev_month) ==
          IF Falsy(prev_month) THEN Kept("no_previous_month")
          ELSE IF prev_month \notin DOMAIN fs THEN Kept("no_file")
          ELSE Read(fs[prev_month])
    IN IF ~enabled THEN Kept("disabled") ELSE From(get_previous_month(current))

\* auto_fill_fixed with the auto-fill checkbox on or off
auto_fill_fixed(enabled) ==
    /\ session = "app"
    /\ \E r \in {AutoFill(enabled, current_month, files, labels_by_item)} :
          /\ labels_by_item' = r.labels
          /\ IF r.outcome = "filled"
             THEN \E v \in {recalculate_all(r.labels, totals_per_category, budget_warnings)} :
                     /\ totals_per_category' = v.totals
                     /\ summary' = v.summary
             ELSE UNCHANGED <<totals_per_category, summary>>
          /\ call' = [op |-> "auto_fill_fixed", enabled |-> enabled, outcome |-> r.outcome]
    /\ UNCHANGED <<session, transactions, structure, budget_warnings, settings_file,
                   current_month, files, handled, DEFAULT_STRUCTURE>>

\* inputs: a schema with an income category named "Fixe Einnahmen", and the
\* files found for the previous month
FixeEinnahmen == <<"F","i","x","e"," ","E","i","n","n","a","h","m","e","n">>

SchemaFix == <<Main(FixeEinnahmen, <<Sub(Gehalt, <<Hauptjob>>)>>),
               Main(Fixkosten, <<Sub(Wohnen, <<Miete, Strom>>)>>),
               Main(VariableKosten, <<Sub(Essen, <<Supermarkt>>)>>)>>

PreviousFiles ==
    {Corrupt, ListValues(SchemaFix),
     Payload(SchemaFix,
             <<Value(<<FixeEinnahmen, Gehalt, Hauptjob>>, PyStr(<<"3","0","0","0">>), <<"x">>),
               Value(<<Fixkosten, Wohnen, Miete>>, PyStr(<<"1","0","0","0">>), <<"y">>),
               Value(<<Fixkosten, Wohnen, Strom>>, PyStr(<< >>), <<"z">>),
               Value(<<VariableKosten, Essen, Supermarkt>>, PyStr(<<"2","0","0">>), <<"w">>)>>),
     Payload(SchemaFix,
             <<Value(<<Fixkosten, Wohnen, Miete>>, PyFloat(0), <<"y">>),
               Value(<<Fixkosten, Wohnen, Strom>>, PyFloat(12500), Empty)>>)}

InitAutoFill ==
    /\ session = "app"
    /\ transactions = << >>
    /\ call = NoCall
    /\ structure = SchemaFix
    /\ budget_warnings = << >>
    /\ settings_file = SettingsDoc(<< >>, SchemaFix)
    /\ current_month \in {Month202501, <<"a","b","c">>}
    /\ files \in {<< >>} \cup {[m \in {Month202412} |-> f] : f \in PreviousFiles}
    /\ handled = 0
    /\ DEFAULT_STRUCTURE = Unshared(SchemaA)
    /\ \E ui \in {build_categories_ui(SchemaFix, << >>)} :
          /\ labels_by_item = ui.labels
          /\ \E r \in {recalculate_all(ui.labels, ui.totals, budget_warnings)} :
                /\ totals_per_category = r.totals
                /\ summary = r.summary

NextAutoFill ==
    \/ \E enabled \in BOOLEAN : auto_fill_fixed(enabled)
    \/ \E i \in DOMAIN labels_by_item, text \in {<<"0">>, <<"2","0","0">>} :
          on_amount_change(i, text)

SpecAutoFill == InitAutoFill /\ [][NextAutoFill]_vars

\* C23: auto-fill copies fixed costs only.  auto_fill_fixed changes only
\* entries whose main category is Fixed under the aggregation rule, and sets
\* them to the amount and note stored for the same key in the previous
\* month when that amount is non-empty; when auto-fill is disabled, the
\* previous month cannot be determined or has no file, no entry changes.
C23_AutoFillFixedOnly ==
    [][call'.op = "auto_fill_fixed" =>
          /\ DOMAIN labels_by_item' = DOMAIN labels_by_item
          /\ \A i \in DOMAIN labels_by_item :
                labels_by_item'[i] # labels_by_item[i] =>
                   /\ IsFixedName(labels_by_item[i].category)
                   /\ labels_by_item'[i]
                         = AutoFillField(labels_by_item[i],
                                         files[get_previous_month(current_month)].values)
          /\ (~call'.enabled \/ Falsy(get_previous_month(current_month))
                 \/ get_previous_month(current_month) \notin DOMAIN files)
                => labels_by_item' = labels_by_item]_vars

----------------------------------------------------------------------------
(* Properties of persistence.                                              *)

AllZero(labels) == \A i \in DOMAIN labels : labels[i].amt = Zero /\ labels[i].note = Empty

TotalsZero(sm, totals) ==
    /\ sm.income = 0 /\ sm.expense = 0 /\ sm.balance = 0 /\ sm.fixed = 0 /\ sm.variable = 0
    /\ \A i \in DOMAIN totals : totals[i].sum = 0

\* C14: loading a month that has no file is not an error.  DataManager's
\* load_month returns None, raises nothing and leaves the schema alone; the
\* application's load_month sets every entry field to amount "0" and an
\* empty note, and every total shown is 0.
C14_AbsentMonthLoadsEmpty ==
    [][/\ (session = "storage" /\ call'.op = "load_month"
              /\ call'.month \notin DOMAIN files)
            => /\ call'.exc = "none"
               /\ call'.none
               /\ structure' = structure
       /\ (session = "app" /\ call'.op = "on_load_click" /\ call'.loaded
              /\ current_month \notin DOMAIN files)
            => /\ ~call'.error
               /\ structure' = structure
               /\ DOMAIN labels_by_item' = DOMAIN labels_by_item
               /\ AllZero(labels_by_item')
               /\ TotalsZero(summary', totals_per_category')]_vars

C14_Witness ==
    /\ session = "app"
    /\ call.op = "on_load_click"
    /\ call.loaded
    /\ current_month \notin DOMAIN files
    /\ Len(labels_by_item) = 3
    /\ summary.income = 0

\* C15: when loading a month file fails (the file is not valid JSON, or its
\* content cannot be turned into entries) the failure is reported and the
\* schema and the entries in memory are what they were before the load, for
\* DataManager.load_month and for the application's load_month.
C15_FailedLoadKeepsState ==
    [][/\ (session = "storage" /\ call'.op = "load_month" /\ call'.exc # "none")
            => /\ structure' = structure
               /\ transactions' = transactions
       /\ (session = "app" /\ call'.op = "on_load_click" /\ call'.error)
            => /\ structure' = structure
               /\ labels_by_item' = labels_by_item]_vars

\* a month document whose amounts are all texts, as on_save_click writes them
TextAmounts(f) ==
    /\ f.kind = "json"
    /\ f.values_type = "dict"
    /\ \A i \in DOMAIN f.values : f.values[i].amount.type = "str"

\* the sum of the parsed amounts of a document's entries of one main category
RECURSIVE ParsedSum(_, _)
ParsedSum(values, category) ==
    IF values = << >> THEN 0
    ELSE (IF Head(values).category = category
          THEN ensure_float(Head(values).amount).value ELSE 0)
         + ParsedSum(Tail(values), category)

\* the ledger a document stands for when every amount goes through ensure_float
ParsedLedger(values) ==
    [i \in DOMAIN values |->
       [category |-> values[i].category, subcat |-> values[i].subcat,
        item |-> values[i].item, amount |-> ensure_float(values[i].amount).value,
        note |-> values[i].note]]

\* C16: every raw amount of a month document goes through ensure_float
\* before it is aggregated.  A document whose amounts are texts (decimal
\* comma, empty, unparseable) loads through DataManager.load_month and
\* through the application's load_month, and the totals are those of the
\* parsed amounts; every file on_save_click writes loads in DataManager.
C16_RawAmountsThroughEnsureFloat ==
    /\ (session = "storage" /\ call.op = "load_month" /\ call.month \in DOMAIN files
           /\ TextAmounts(files[call.month]))
         => /\ call.exc = "none"
            /\ ~call.none
            /\ calculate_totals(call.ret)
                  = calculate_totals(ParsedLedger(files[call.month].values))
    /\ (session = "app" /\ call.op = "on_load_click" /\ call.loaded
           /\ current_month \in DOMAIN files /\ TextAmounts(files[current_month]))
         => /\ ~call.error
            /\ summary.fixed = ParsedSum(files[current_month].values, Fixkosten)

\* C17: looking up a key that has no stored entry, a key outside the schema
\* included, returns an entry with amount 0 and an empty note, raises
\* nothing, and leaves the transactions mapping as it was.
C17_MissingLookupDefault ==
    [][(call'.op = "get_transaction" /\ ~HasKey(transactions, call'.key))
          => /\ call'.ret = Transaction(0, Empty)
             /\ transactions' = transactions]_vars

C17_Witness ==
    /\ call.op = "get_transaction"
    /\ call.key = UnknownKey
    /\ transactions # << >>
    /\ ~HasKey(transactions, call.key)
    /\ call.ret = Transaction(0, Empty)

\* the entries of a ledger, regardless of their order
EntrySet(txs) == {txs[i] : i \in DOMAIN txs}

\* C19: saving and loading are a round trip.  load_month(m.month) directly
\* after save_month(m) raises nothing and returns a MonthData with exactly
\* the keys of m, each with the same amount and note.
C19_SaveLoadRoundTrip ==
    [][(call.op = "save_month" /\ call'.op = "load_month" /\ call'.month = call.month)
          => /\ call'.exc = "none"
             /\ ~call'.none
             /\ Len(call'.ret) = Len(transactions)
             /\ EntrySet(call'.ret) = EntrySet(transactions)]_vars

C19_Witness ==
    /\ call.op = "load_month"
    /\ ~call.none
    /\ call.month \in DOMAIN files
    /\ files[call.month] = save_month(transactions, structure)
    /\ Len(call.ret) = 2
    /\ \E i \in DOMAIN call.ret : call.ret[i].amount = 12500 /\ call.ret[i].note = <<"x">>
    /\ EntrySet(call.ret) = EntrySet(transactions)

----------------------------------------------------------------------------
(* Entries with amount 0.                                                  *)

\* the ledger without its entries of amount 0
WithoutZero(txs) == SelectSeq(txs, LAMBDA e : e.amount # 0)

\* totals[category], read as 0 for a category without a total
CategoryTotal(t, category) ==
    IF category \in DOMAIN t.categories THEN t.categories[category] ELSE 0

SameTotals(a, b) ==
    /\ a.income = b.income
    /\ a.expenses = b.expenses
    /\ a.fixed = b.fixed
    /\ a.variable = b.variable
    /\ a.balance = b.balance
    /\ \A category \in (DOMAIN a.categories) \cup (DOMAIN b.categories) :
          CategoryTotal(a, category) = CategoryTotal(b, category)

\* C18: an absent entry and an entry with amount 0 are equivalent for every
\* aggregation output: leaving out the entries of amount 0 changes none of
\* the totals, the per-category totals, the breach flags, or the list the
\* top-N ranking returns.
C18_ZeroEntryIsAbsent ==
    /\ call.op = "calculate_totals"
          => SameTotals(call.ret, calculate_totals(WithoutZero(transactions)))
    /\ call.op = "check_budget_limit"
          => (call.amount = 0 => ~call.ret.is_exceeded)
    /\ call.op = "get_top_expenses"
          => call.ret = get_top_expenses(WithoutZero(transactions), call.n)

----------------------------------------------------------------------------
(* Budget limits, subtotals and the sum labels.                            *)

\* C24: budget limits are positive.  After any sequence of save_limits
\* calls, with any text in the fields, every value stored in the
\* budget-limits mapping is a number greater than 0.
C24_LimitsPositive ==
    session = "app" => \A c \in DOMAIN budget_warnings : budget_warnings[c] > 0

\* C25: after calculate_totals and after recalculate_all, total expenses
\* equal the fixed subtotal plus the variable subtotal, and the per-category
\* totals add up to total income plus total expenses.
C25_SubtotalsAddUp ==
    /\ TotalsReturned =>
         /\ call.ret.expenses = call.ret.fixed + call.ret.variable
         /\ SumIdx(DOMAIN call.ret.categories, call.ret.categories)
               = call.ret.income + call.ret.expenses
    /\ Recalculated =>
         /\ summary.expense = summary.fixed + summary.variable
         /\ SumIdx(DOMAIN totals_per_category,
                   [i \in DOMAIN totals_per_category |-> totals_per_category[i].sum])
               = summary.income + summary.expense

\* Einkommen 1000, Sparen 200, Sparen / Auto 3000
C25_Witness ==
    /\ session = "app"
    /\ call.op = "on_amount_change"
    /\ structure = SchemaB
    /\ summary.income = 1000 * Scale
    /\ summary.fixed = 0
    /\ summary.variable = 3200 * Scale
    /\ summary.expense = 3200 * Scale
    /\ totals_per_category[2].sum = 200 * Scale
    /\ totals_per_category[3].sum = 3000 * Scale

\* C28: after every completed operation that rebuilds or changes the entry
\* view, each displayed per-category sum and breach warning equals the value
\* computed from the entries currently held for that category.
C28_SumLabelsCurrent ==
    session = "app" =>
        \A i \in DOMAIN totals_per_category :
            /\ totals_per_category[i].sum = CategorySum(totals_per_category[i].category)
            /\ totals_per_category[i].warn
                  = LimitExceeded(budget_warnings, totals_per_category[i].category,
                                  CategorySum(totals_per_category[i].category))

----------------------------------------------------------------------------
(* Properties of navigation and of the per-month figures.                  *)

\* the entry fields a month document stands for
FieldsOf(values) ==
    [i \in DOMAIN values |-> Field(KeyOf(values[i]), str(values[i].amount), values[i].note)]

\* C22: in the comparison and trend series, the income and expense figure of
\* each month is the one the aggregation rule yields for that month's
\* entries: total income and total expenses as recalculate_all computes
\* them for the same entries.
C22_SeriesUsesAggregation ==
    (call.op = "update_charts" \/ (call.op = "update_trends" /\ call.enough)) =>
        \A i \in DOMAIN call.months_data :
            /\ call.figures[i].income
                  = RecalcLoop(ZeroSums, FieldsOf(call.months_data[i].data.values)).income
            /\ call.figures[i].expense
                  = RecalcLoop(ZeroSums, FieldsOf(call.months_data[i].data.values)).expense

\* C26: starting from a valid month key, every navigate_month(+1) and
\* navigate_month(-1) keeps the current month a key that
\* validate_month_format accepts, so that on_save_click can save it.
C26_NavigationKeepsValidKey ==
    [][(validate_month_format(current_month) /\ call'.op = "navigate_month")
          => validate_month_format(current_month')]_vars

\* C27: after navigate_month has completed, with or without a reported load
\* failure, the entries held in memory belong to the month shown as current:
\* they are the entries persisted for that month, or all zero.
C27_EntriesBelongToCurrentMonth ==
    (session = "app" /\ call.op = "navigate_month" /\ ~call.failed
        /\ validate_month_format(current_month)) =>
        \/ AllZero(labels_by_item)
        \/ /\ current_month \in DOMAIN files
           /\ files[current_month].kind = "json"
           /\ \A i \in DOMAIN labels_by_item :
                 labels_by_item[i]
                    = LoadedField(files[current_month].values, KeyOf(labels_by_item[i]))

----------------------------------------------------------------------------
(* Schema mutations of one DataManager, or of the application.             *)

MaxSchemaSize == 11

\* no settings.json has been written yet
NoSettings == [kind |-> "absent"]

\* DataManager.add_category(main_category, subcategory, item)
AddCategory(main_category, subcategory, item) ==
    /\ session = "storage"
    /\ SchemaSize(structure) < MaxSchemaSize
    /\ structure' = add_category(structure, main_category, subcategory, item)
    /\ DEFAULT_STRUCTURE' = Aliased(DEFAULT_STRUCTURE, structure')
    /\ settings_file' = SettingsDoc(budget_warnings, structure')
    /\ call' = [op |-> "add_category"]
    /\ UNCHANGED <<session, transactions, labels_by_item, totals_per_category, summary,
                   budget_warnings, current_month, files, handled>>

\* DataManager.remove_item(main_category, subcategory, item)
RemoveItem(main_category, subcategory, item) ==
    /\ session = "storage"
    /\ \E r \in {remove_item(structure, main_category, subcategory, item)} :
          /\ structure' = r.structure
          /\ settings_file' = IF r.key_error THEN settings_file
                              ELSE SettingsDoc(budget_warnings, r.structure)
          /\ call' = [op |-> "remove_item", main_category |-> main_category,
                      subcategory |-> subcategory, item |-> item,
                      key_error |-> r.key_error]
    /\ DEFAULT_STRUCTURE' = Aliased(DEFAULT_STRUCTURE, structure')
    /\ UNCHANGED <<session, transactions, labels_by_item, totals_per_category, summary,
                   budget_warnings, current_month, files, handled>>

\* quick_add_subcategory(main_cat) with the answer of the dialog (None when
\* it was cancelled): the fields are rebuilt, a recalculation does not follow
quick_add_subcategory(main_cat, subcat) ==
    /\ session = "app"
    /\ main_cat \in Mains(structure)
    /\ SchemaSize(structure) < MaxSchemaSize
    /\ IF Given(subcat) /\ Strip(subcat) # << >> /\ ~HasSub(structure, main_cat, subcat)
       THEN /\ structure' = WithSubs(structure, main_cat,
                                     Append(MainAt(structure, main_cat).subs,
                                            Sub(subcat, << >>)))
            /\ settings_file' = SettingsDoc(budget_warnings, structure')
            /\ \E ui \in {build_categories_ui(structure', labels_by_item)} :
                  /\ labels_by_item' = ui.labels
                  /\ totals_per_category' = ui.totals
       ELSE UNCHANGED <<structure, settings_file, labels_by_item, totals_per_category>>
    /\ DEFAULT_STRUCTURE' = Aliased(DEFAULT_STRUCTURE, structure')
    /\ call' = [op |-> "quick_add_subcategory"]
    /\ UNCHANGED <<session, transactions, summary, budget_warnings, current_month, files,
                   handled>>

\* quick_add_item(main_cat, subcat) with the answer of the dialog
quick_add_item(main_cat, subcat, item) ==
    /\ session = "app"
    /\ HasSub(structure, main_cat, subcat)
    /\ SchemaSize(structure) < MaxSchemaSize
    /\ IF Given(item) /\ Strip(item) # << >>
          /\ ~InSeq(ItemsAt(structure, main_cat, subcat), item)
       THEN /\ structure' = WithItems(structure, main_cat, subcat,
                                      Append(ItemsAt(structure, main_cat, subcat), item))
            /\ settings_file' = SettingsDoc(budget_warnings, structure')
            /\ \E ui \in {build_categories_ui(structure', labels_by_item)} :
                  /\ labels_by_item' = ui.labels
                  /\ \E r \in {recalculate_all(ui.labels, ui.totals, budget_warnings)} :
                        /\ totals_per_category' = r.totals
                        /\ summary' = r.summary
       ELSE UNCHANGED <<structure, settings_file, labels_by_item, totals_per_category,
                        summary>>
    /\ DEFAULT_STRUCTURE' = Aliased(DEFAULT_STRUCTURE, structure')
    /\ call' = [op |-> "quick_add_item"]
    /\ UNCHANGED <<session, transactions, budget_warnings, current_month, files, handled>>

\* delete_item(main_cat, subcat, item), started from the delete button of an
\* entry, with the answer to "wirklich löschen?"
delete_item(k, yes) ==
    /\ session = "app"
    /\ HasKey(labels_by_item, k)
    /\ IF yes
       THEN /\ structure' = Cleanup(Removed(structure, k[1], k[2], k[3]), k[1], k[2])
            /\ settings_file' = SettingsDoc(budget_warnings, structure')
            /\ \E ui \in {build_categories_ui(structure', labels_by_item)} :
                  /\ labels_by_item' = ui.labels
                  /\ \E r \in {recalculate_all(ui.labels, ui.totals, budget_warnings)} :
                        /\ totals_per_category' = r.totals
                        /\ summary' = r.summary
       ELSE UNCHANGED <<structure, settings_file, labels_by_item, totals_per_category,
                        summary>>
    /\ DEFAULT_STRUCTURE' = Aliased(DEFAULT_STRUCTURE, structure')
    /\ call' = [op |-> "delete_item", key |-> k, yes |-> yes]
    /\ UNCHANGED <<session, transactions, budget_warnings, current_month, files, handled>>

\* inputs: names given to add_category, remove_item and the dialogs
MainNames == {Einnahmen, Sparen}
SubNames == {Gehalt, Rad, None}
ItemNames == {Hauptjob, Strom, None}

\* a DataManager or the application, started without settings.json (the
\* schema is the copy of the default schema) or with a settings.json that
\* holds SchemaB; the folder has no month file or one saved under SchemaB
InitSchema ==
    /\ session \in {"storage", "app"}
    /\ transactions = << >>
    /\ call = NoCall
    /\ budget_warnings = << >>
    /\ current_month = Month202501
    /\ files \in {<< >>, [m \in {Month202501} |-> SavedEinkommen]}
    /\ handled = 0
    /\ \E fresh \in BOOLEAN :
          /\ settings_file = IF fresh THEN NoSettings ELSE SettingsDoc(<< >>, SchemaB)
          /\ \E start \in {IF fresh THEN SchemaA ELSE SchemaB} :
             IF session = "storage"
             THEN /\ structure = start
                  /\ DEFAULT_STRUCTURE = IF fresh THEN Shared(SchemaA) ELSE Unshared(SchemaA)
                  /\ labels_by_item = << >>
                  /\ totals_per_category = << >>
                  /\ summary = recalculate_all(<< >>, << >>, << >>).summary
             ELSE /\ DEFAULT_STRUCTURE
                       = Replaced(IF fresh THEN Shared(SchemaA) ELSE Unshared(SchemaA),
                                  current_month, files)
                  /\ \E ui \in {build_categories_ui(start, << >>)} :
                     \E st \in {load_month(current_month, files, budget_warnings,
                                           [structure |-> start, labels |-> ui.labels,
                                            totals |-> ui.totals,
                                            summary |-> recalculate_all(<< >>, << >>,
                                                                        << >>).summary])} :
                        /\ structure = st.structure
                        /\ labels_by_item = st.labels
                        /\ totals_per_category = st.totals
                        /\ summary = st.summary

NextSchema ==
    \/ \E main \in MainNames, sub \in SubNames, item \in ItemNames :
          AddCategory(main, sub, item)
    \/ \E main \in MainNames, sub \in SubNames \ {None}, item \in ItemNames \ {None} :
          RemoveItem(main, sub, item)
    \/ LoadMonth(Month202501)
    \/ \E main \in MainNames, sub \in SubNames : quick_add_subcategory(main, sub)
    \/ \E main \in MainNames, sub \in SubNames, item \in ItemNames :
          quick_add_item(main, sub, item)
    \/ \E k \in {KeyOf(labels_by_item[i]) : i \in DOMAIN labels_by_item}, yes \in BOOLEAN :
          delete_item(k, yes)
    \/ on_load_click

SpecSchema == InitSchema /\ [][NextSchema]_vars

----------------------------------------------------------------------------
(* Properties of the schema.                                               *)

\* C21: the schema is persisted back on every mutation.  After any
\* operation that changes the schema in memory, the structure stored in the
\* settings document (where one has been written) equals the schema in
\* memory.
C21_SchemaPersistedOnMutation ==
    [][(structure' # structure /\ "structure" \in DOMAIN settings_file')
          => settings_file'.structure = structure']_vars

\* C29: schema mutations never change the built-in default schema.  After
\* any sequence of add_category and remove_item calls, or additions and
\* deletions in the application, DEFAULT_STRUCTURE has its original
\* categories, subcategories and items.
C29_DefaultSchemaUntouched == DEFAULT_STRUCTURE.structure = SchemaA

\* the schema without one item, without its subcategory if that leaves it
\* empty, and without its main category if that leaves it empty
WithoutItem(schema, main, sub, item) ==
    LET Pruned(s) ==
          [i \in DOMAIN s |->
             Main(s[i].name, SelectSeq(s[i].subs, LAMBDA x : x.items # << >> \/ ~(s[i].name = main /\ x.name = sub)))]
        Kept(s) == SelectSeq(s, LAMBDA m : m.subs # << >> \/ m.name # main)
    IN Kept(Pruned([i \in DOMAIN schema |->
                      Main(schema[i].name,
                           [j \in DOMAIN schema[i].subs |->
                              Sub(schema[i].subs[j].name,
                                  IF schema[i].name = main /\ schema[i].subs[j].name = sub
                                  THEN SelectSeq(schema[i].subs[j].items,
                                                 LAMBDA x : x # item)
                                  ELSE schema[i].subs[j].items)])]))

\* C30: remove_item removes at most the named item.  With an item that is
\* not in the schema the schema stays as it is and nothing is raised; with
\* an existing item that item goes and, only if this leaves them empty,
\* its subcategory and main category; every other path is unchanged.
C30_RemoveAtMostTheItem ==
    [][call'.op = "remove_item" =>
          IF <<call'.main_category, call'.subcategory, call'.item>>
                \in {SchemaKeys(structure)[i] : i \in DOMAIN SchemaKeys(structure)}
          THEN structure' = WithoutItem(structure, call'.main_category,
                                        call'.subcategory, call'.item)
          ELSE structure' = structure]_vars

====
